---- MODULE Spec2Model ----
(***************************************************************************)
(* A model of the super-AST normalizer of gotranslate: the visitor of      *)
(* src/visitor.go (lines 1-555, the most complete snapshot), driven by     *)
(* go/ast.Walk over a native parse tree.                                   *)
(*                                                                         *)
(* A native node is a record with a field k naming its go/ast type.  An IR *)
(* node is a record with a field k naming its Go struct and the fields     *)
(* the visitor sets.  Blocks are pointers in the code: here a block is an  *)
(* entry of a heap (a sequence), and a statement that owns a block holds   *)
(* its heap address.  Token positions are not modelled, except for the     *)
(* method call on a nil node that nodePos performs.                        *)
(*                                                                         *)
(* Every AST instance is one entry of the variable inst, so that several   *)
(* traversals can be interleaved.                                          *)
(***************************************************************************)
EXTENDS Integers, Sequences, FiniteSets, TLC

VARIABLES inst

vars == <<inst>>

(***************************************************************************)
(* Bounds of the model.                                                    *)
(***************************************************************************)
\* the longest generated function body, in statements
MaxStmts == 2
\* the most names one generated field entry declares
MaxNames == 2
\* the most entries in a generated field list
MaxFields == 2

Nil == [k |-> "nil"]

RECURSIVE Concat(_)
\* the concatenation of a sequence of sequences
Concat(ss) ==
  IF ss = <<>> THEN <<>> ELSE Head(ss) \o Concat(Tail(ss))

RECURSIVE Join(_)
\* a string from a sequence of one-character strings
Join(cs) ==
  IF cs = <<>> THEN "" ELSE Head(cs) \o Join(Tail(cs))

(***************************************************************************)
(* Native nodes (go/ast).                                                  *)
(***************************************************************************)
Ident(n) == [k |-> "Ident", Name |-> n]
\* Value is the raw lexeme, a sequence of one-character strings
BasicLit(kind, chars) == [k |-> "BasicLit", Kind |-> kind, Value |-> chars]
UnaryExpr(op, x) == [k |-> "UnaryExpr", Op |-> op, X |-> x]
BinaryExpr(x, op, y) == [k |-> "BinaryExpr", Op |-> op, X |-> x, Y |-> y]
CallExpr(fun, args) == [k |-> "CallExpr", Fun |-> fun, Args |-> args]
IndexExpr(x, idx) == [k |-> "IndexExpr", X |-> x, Index |-> idx]
SelectorExpr(x, sel) == [k |-> "SelectorExpr", X |-> x, Sel |-> Ident(sel)]
ParenExpr(x) == [k |-> "ParenExpr", X |-> x]
StarExpr(x) == [k |-> "StarExpr", X |-> x]
ArrayType(elt) == [k |-> "ArrayType", Elt |-> elt]
CompositeLit(type) == [k |-> "CompositeLit", Type |-> type]
MapType(key, val) == [k |-> "MapType", Key |-> key, Value |-> val]
FuncLit == [k |-> "FuncLit"]

Field(names, type) == [k |-> "Field", Names |-> names, Type |-> type]
\* a *ast.FieldList; the nil pointer is Nil
FieldList(list) == [k |-> "FieldList", List |-> list]

ExprStmt(x) == [k |-> "ExprStmt", X |-> x]
AssignStmt(lhs, tok, rhs) == [k |-> "AssignStmt", Lhs |-> lhs, Tok |-> tok, Rhs |-> rhs]
ReturnStmt(results) == [k |-> "ReturnStmt", Results |-> results]
IncDecStmt(x, tok) == [k |-> "IncDecStmt", X |-> x, Tok |-> tok]
BlockStmt(list) == [k |-> "BlockStmt", List |-> list]
IfStmt(init, cond, body, else) == [k |-> "IfStmt", Init |-> init, Cond |-> cond, Body |-> body, Else |-> else]
ForStmt(init, cond, post, body) == [k |-> "ForStmt", Init |-> init, Cond |-> cond, Post |-> post, Body |-> body]
BranchStmt(tok) == [k |-> "BranchStmt", Tok |-> tok]
RangeStmt(x, body) == [k |-> "RangeStmt", X |-> x, Body |-> body]
SendStmt(chan, val) == [k |-> "SendStmt", Chan |-> chan, Value |-> val]
SwitchStmt(tag, body) == [k |-> "SwitchStmt", Tag |-> tag, Body |-> body]
DeferStmt(call) == [k |-> "DeferStmt", Call |-> call]
GoStmt(call) == [k |-> "GoStmt", Call |-> call]
LabeledStmt(label, s) == [k |-> "LabeledStmt", Label |-> label, Stmt |-> s]

\* Values is <<>> (the nil slice) when the spec has no initializer
ValueSpec(names, type, values) == [k |-> "ValueSpec", Names |-> names, Type |-> type, Values |-> values]
StructType(fields) == [k |-> "StructType", Fields |-> fields]
TypeSpec(name, type) == [k |-> "TypeSpec", Name |-> Ident(name), Type |-> type]
ImportSpec(path) == [k |-> "ImportSpec", Path |-> path]
GenDecl(tok, specs) == [k |-> "GenDecl", Tok |-> tok, Specs |-> specs]
DeclStmt(decl) == [k |-> "DeclStmt", Decl |-> decl]
FuncType(params, results) == [k |-> "FuncType", Params |-> params, Results |-> results]
\* Body is Nil for a declaration without a body
FuncDecl(name, params, results, body) == [k |-> "FuncDecl", Name |-> Ident(name), Type |-> FuncType(params, results), Body |-> body]
\* Imports lists the import paths, as the parser collects them from the import declarations
File(name, imports, decls) == [k |-> "File", Name |-> Ident(name), Imports |-> imports, Decls |-> decls]

(***************************************************************************)
(* Values.  An identifier's Value is an interface{} in the code: here a    *)
(* record naming the dynamic Go type (vt) and the content: n a number, e   *)
(* the count of fractional digits of a float64, s the characters of a      *)
(* string literal, name a Go string that is a name.  A pointer type        *)
(* such as *int64 is serialised as the value it points to.                 *)
(***************************************************************************)
Value(vt, n, e, s, name) == [vt |-> vt, n |-> n, e |-> e, s |-> s, name |-> name]
NilValue == Value("nil", 0, 0, <<>>, "")
IntValue(i) == Value("int64", i, 0, <<>>, "")
FloatValue(m, e) == Value("float64", m, e, <<>>, "")
RuneValue(r) == Value("int32", r, 0, <<>>, "")
StringValue(cs) == Value("string", 0, 0, cs, "")
NameValue(n) == Value("string", 0, 0, <<>>, n)

\* the double quote, the single quote, the back quote (a token) and the backslash
DQ == "\""
SQ == "'"
BQ == "<BQ>"
BSL == "\\"

Digits == {"0", "1", "2", "3", "4", "5", "6", "7", "8", "9"}

DigitVal(c) ==
  CASE c = "0" -> 0 [] c = "1" -> 1 [] c = "2" -> 2 [] c = "3" -> 3
    [] c = "4" -> 4 [] c = "5" -> 5 [] c = "6" -> 6 [] c = "7" -> 7
    [] c = "8" -> 8 [] c = "9" -> 9
    [] c \in {"a", "A"} -> 10 [] c \in {"b", "B"} -> 11 [] c \in {"c", "C"} -> 12
    [] c \in {"d", "D"} -> 13 [] c \in {"e", "E"} -> 14 [] c \in {"f", "F"} -> 15
    [] OTHER -> 99

RECURSIVE DigitsValue(_, _, _)
\* the number the digit sequence cs denotes in the given base, after acc
DigitsValue(cs, base, acc) ==
  IF cs = <<>> THEN acc
  ELSE DigitsValue(Tail(cs), base, acc * base + DigitVal(Head(cs)))

AllDigits(cs, base) == cs # <<>> /\ \A i \in 1..Len(cs) : DigitVal(cs[i]) < base

\* strconv.ParseInt(s, 10, 0) with the error dropped: 0 on a syntax error.
\* An optional sign is accepted; base 10 is explicit, so no prefix and no
\* underscore is.  (Literals beyond 64 bits are outside the model's inputs.)
ParseInt10(cs) ==
  LET signed == cs # <<>> /\ Head(cs) \in {"+", "-"}
      body == IF signed THEN Tail(cs) ELSE cs
  IN  IF ~AllDigits(body, 10) THEN 0
      ELSE IF signed /\ Head(cs) = "-" THEN 0 - DigitsValue(body, 10, 0)
      ELSE DigitsValue(body, 10, 0)

RECURSIVE IndexOf(_, _, _)
\* the first index >= i of c in cs, 0 when there is none
IndexOf(cs, c, i) ==
  IF i > Len(cs) THEN 0 ELSE IF cs[i] = c THEN i ELSE IndexOf(cs, c, i + 1)

RECURSIVE Normalize(_, _)
\* a decimal mantissa m with e fractional digits, trailing zeros dropped
Normalize(m, e) ==
  IF e > 0 /\ m % 10 = 0 THEN Normalize(m \div 10, e - 1) ELSE FloatValue(m, e)

\* strconv.ParseFloat(s, 64) with the error dropped, for lexemes of the
\* form digits "." digits (either part may be empty, not both): the
\* decimal they denote; 0 on a syntax error
ParseFloat(cs) ==
  LET dot == IndexOf(cs, ".", 1)
      ip == IF dot = 0 THEN cs ELSE SubSeq(cs, 1, dot - 1)
      fp == IF dot = 0 THEN <<>> ELSE SubSeq(cs, dot + 1, Len(cs))
  IN  IF ip \o fp = <<>> \/ ~AllDigits(ip \o fp, 10) THEN FloatValue(0, 0)
      ELSE Normalize(DigitsValue(ip \o fp, 10, 0), Len(fp))

\* the code point of a character
Ord(c) ==
  CASE c = "a" -> 97 [] c = "b" -> 98 [] c = "c" -> 99 [] c = "n" -> 110
    [] c = "x" -> 120 [] c = "A" -> 65 [] c = "0" -> 48 [] c = "1" -> 49
    [] c = " " -> 32 [] c = "\n" -> 10 [] c = "\t" -> 9 [] c = "\r" -> 13
    [] c = "\f" -> 12 [] c = BSL -> 92 [] c = SQ -> 39 [] c = DQ -> 34
    [] c = "<NUL>" -> 0 [] c = "<BEL>" -> 7 [] c = "<BS>" -> 8 [] c = "<VT>" -> 11
    [] OTHER -> 65533

\* the character of a code point
Chr(n) ==
  CASE n = 97 -> "a" [] n = 98 -> "b" [] n = 99 -> "c" [] n = 110 -> "n"
    [] n = 120 -> "x" [] n = 65 -> "A" [] n = 48 -> "0" [] n = 49 -> "1"
    [] n = 32 -> " " [] n = 10 -> "\n" [] n = 9 -> "\t" [] n = 13 -> "\r"
    [] n = 12 -> "\f" [] n = 92 -> BSL [] n = 39 -> SQ [] n = 34 -> DQ
    [] n = 0 -> "<NUL>" [] n = 7 -> "<BEL>" [] n = 8 -> "<BS>" [] n = 11 -> "<VT>"
    [] OTHER -> "<U+" \o ToString(n) \o ">"

UnquoteErr == [ok |-> FALSE, r |-> "<NUL>", tail |-> <<>>]

\* an escape of n digits in the given base, the digits starting at cs
NumEscape(cs, n, base) ==
  IF Len(cs) < n \/ ~AllDigits(SubSeq(cs, 1, n), base) THEN UnquoteErr
  ELSE [ok |-> TRUE, r |-> Chr(DigitsValue(SubSeq(cs, 1, n), base, 0)), tail |-> SubSeq(cs, n + 1, Len(cs))]

\* strconv.UnquoteChar(s, quote): the first character or escape of s
UnquoteChar(cs, quote) ==
  IF cs = <<>> THEN UnquoteErr
  ELSE IF Head(cs) = quote /\ quote \in {SQ, DQ} THEN UnquoteErr
  ELSE IF Head(cs) # BSL THEN [ok |-> TRUE, r |-> Head(cs), tail |-> Tail(cs)]
  ELSE IF Len(cs) <= 1 THEN UnquoteErr
  ELSE LET c == cs[2]
           rest == SubSeq(cs, 3, Len(cs))
           simple(r) == [ok |-> TRUE, r |-> r, tail |-> rest]
       IN  CASE c = "a" -> simple("<BEL>") [] c = "b" -> simple("<BS>")
             [] c = "f" -> simple("\f") [] c = "n" -> simple("\n")
             [] c = "r" -> simple("\r") [] c = "t" -> simple("\t")
             [] c = "v" -> simple("<VT>") [] c = BSL -> simple(BSL)
             [] c = "x" -> NumEscape(rest, 2, 16)
             [] c = "u" -> NumEscape(rest, 4, 16)
             [] c = "U" -> NumEscape(rest, 8, 16)
             [] DigitVal(c) < 8 -> NumEscape(Tail(cs), 3, 8)
             [] c \in {SQ, DQ} -> IF c # quote THEN UnquoteErr ELSE simple(c)
             [] OTHER -> UnquoteErr

RECURSIVE UnquoteAll(_, _, _)
\* the loop of strconv.Unquote over the escapes of cs; <<FALSE, _>> on an error
UnquoteAll(cs, quote, acc) ==
  IF cs = <<>> THEN <<TRUE, acc>>
  ELSE LET u == UnquoteChar(cs, quote)
       IN  IF ~u.ok THEN <<FALSE, <<>>>>
           ELSE IF quote = SQ /\ u.tail # <<>> THEN <<FALSE, <<>>>>
           ELSE UnquoteAll(u.tail, quote, Append(acc, u.r))

\* strconv.Unquote(s) with the error dropped: the empty string on an error
Unquote(cs) ==
  IF Len(cs) < 2 THEN <<>>
  ELSE LET quote == cs[1]
           body == SubSeq(cs, 2, Len(cs) - 1)
       IN  IF quote # cs[Len(cs)] THEN <<>>
           ELSE IF quote = BQ
             THEN IF IndexOf(body, BQ, 1) # 0 THEN <<>>
                  ELSE SelectSeq(body, LAMBDA c : c # "\r")
           ELSE IF quote \notin {DQ, SQ} THEN <<>>
           ELSE IF IndexOf(body, "\n", 1) # 0 THEN <<>>
           ELSE LET u == UnquoteAll(body, quote, <<>>)
                IN  IF u[1] /\ (quote = DQ \/ Len(u[2]) = 1) THEN u[2] ELSE <<>>

(***************************************************************************)
(* The pure helpers of the visitor.                                        *)
(***************************************************************************)
RECURSIVE exprString(_)
exprString(x) ==
  CASE x.k = "Ident" -> x.Name
    [] x.k = "BasicLit" -> Join(x.Value)
    [] x.k = "StarExpr" -> exprString(x.X)
    [] x.k = "SelectorExpr" -> exprString(x.X) \o "." \o x.Sel.Name
    [] OTHER -> ""

exprValue(x) ==
  IF x.k = "BasicLit"
  THEN CASE x.Kind = "INT" -> IntValue(ParseInt10(x.Value))
         [] x.Kind = "FLOAT" -> ParseFloat(x.Value)
         [] x.Kind = "CHAR" -> LET u == UnquoteChar(x.Value, SQ)
                               IN  RuneValue(IF u.ok THEN Ord(u.r) ELSE 0)
         [] x.Kind = "STRING" -> StringValue(Unquote(x.Value))
         [] OTHER -> StringValue(x.Value)
  ELSE NilValue

basicLitName(kind) ==
  CASE kind = "INT" -> "int"
    [] kind = "FLOAT" -> "double"
    [] kind = "CHAR" -> "char"
    [] kind = "STRING" -> "string"
    [] OTHER -> ""

\* new(int), new(float64), new(rune), new(string): pointers to zero values;
\* NilValue for a name the map does not hold
\* the zero values as text
zeroValues_text(name) ==
  CASE name = "int" -> Value("*string", 0, 0, <<"0">>, "")
    [] name = "double" -> Value("*string", 0, 0, <<"0", ".", "0">>, "")
    [] name = "char" -> Value("*string", 0, 0, <<SQ, BSL, "0", SQ>>, "")
    [] name = "string" -> Value("*string", 0, 0, <<>>, "")
    [] OTHER -> NilValue

zeroValues(name) ==
  CASE name = "int" -> Value("*int", 0, 0, <<>>, "")
    [] name = "double" -> Value("*float64", 0, 0, <<>>, "")
    [] name = "char" -> Value("*int32", 0, 0, <<>>, "")
    [] name = "string" -> Value("*string", 0, 0, <<>>, "")
    [] OTHER -> NilValue

\* a dataType; id is the zero value until assignIdToDataType sets it
dataType(id, name, sub) == [k |-> "dataType", id |-> id, Name |-> name, SubType |-> sub]

RECURSIVE exprType(_)
exprType(x) ==
  CASE x.k = "ArrayType" -> dataType(0, "vector", exprType(x.Elt))
    [] x.k = "BasicLit" -> dataType(0, basicLitName(x.Kind), Nil)
    [] x.k = "BinaryExpr" -> exprType(x.X)
    [] x.k = "CompositeLit" -> dataType(0, exprString(x.Type), Nil)
    [] OTHER -> IF exprString(x) # "" THEN dataType(0, exprString(x), Nil)
                ELSE dataType(0, "unknown", Nil)

\* node is Nil for the entry of a field without names: the zero ast.Node
namedType(vName, dType, node) == [vName |-> vName, dType |-> dType, node |-> node]

flattenNames(baseType, names) ==
  LET t == exprType(baseType)
  IN  IF Len(names) = 0 THEN <<namedType("", t, Nil)>>
      ELSE [i \in 1..Len(names) |-> namedType(names[i].Name, t, names[i])]

flattenFieldList(fieldList) ==
  IF fieldList = Nil THEN <<>>
  ELSE Concat([i \in 1..Len(fieldList.List) |->
                 flattenNames(fieldList.List[i].Type, fieldList.List[i].Names)])

(***************************************************************************)
(* The AST instance: curID, heap (the blocks; RootBlock is heap[1]),       *)
(* blockStack (heap addresses), nodeStack, and the state of ast.Walk:      *)
(* agenda, the visits and exits still to make, and status.  log, last and  *)
(* pre are history: the ids handed out in order, the event of the last     *)
(* Visit call, and the stacks, heap and counter before it.                 *)
(***************************************************************************)
Panic(a) == [a EXCEPT !.status = "panic"]

\* a.newID(), the mutation a plausible slip makes: the counter is not advanced
newID_stuck(a) ==
  [id |-> a.curID, a |-> [a EXCEPT !.log = Append(@, a.curID)]]

newID(a) ==
  [id |-> a.curID, a |-> [a EXCEPT !.curID = @ + 1, !.log = Append(@, a.curID)]]

BlockRef(addr) == [k |-> "block", addr |-> addr]

\* &block{id: a.newID(), Stmts: make([]stmt, 0)}: the new block's address
newBlock(a) ==
  LET r == newID(a)
  IN  [ref |-> BlockRef(Len(a.heap) + 1),
       a |-> [r.a EXCEPT !.heap = Append(@, [id |-> r.id, Stmts |-> <<>>])]]

pushNode(a, node) ==
  IF a.status = "panic" THEN a ELSE [a EXCEPT !.nodeStack = Append(@, node)]

popNode(a) ==
  IF a.status = "panic" THEN a
  ELSE IF a.nodeStack = <<>> THEN Panic(a)
  ELSE [a EXCEPT !.nodeStack = SubSeq(@, 1, Len(@) - 1)]

pushBlock(a, b) ==
  IF a.status = "panic" THEN a ELSE [a EXCEPT !.blockStack = Append(@, b.addr)]

popBlock(a) ==
  IF a.status = "panic" THEN a
  ELSE IF a.blockStack = <<>> THEN Panic(a)
  ELSE [a EXCEPT !.blockStack = SubSeq(@, 1, Len(@) - 1)]

\* curBlock() indexes the stack at len-1: a run-time panic on an empty stack
addStmt(a, s) ==
  IF a.status = "panic" THEN a
  ELSE IF a.blockStack = <<>> THEN Panic(a)
  ELSE [a EXCEPT !.heap[a.blockStack[Len(a.blockStack)]].Stmts = Append(@, s)]

\* nodePos(n) calls n.Pos(): a run-time panic on the nil ast.Node
nodePos(a, n) == IF n = Nil THEN Panic(a) ELSE a

getInvalid(a, desc) ==
  LET r == newID(a)
  IN  [n |-> [k |-> "errorNode", id |-> r.id, Type |-> "error",
              Value |-> "Unsupported statement or expression", Desc |-> desc],
       a |-> r.a]

addInvalid(a, desc) ==
  LET e == getInvalid(a, desc) IN addStmt(e.a, e.n)

identifier(id, type, value) == [k |-> "identifier", id |-> id, Type |-> type, Value |-> value]
unary(id, type, e) == [k |-> "unary", id |-> id, Type |-> type, Expr |-> e]
binary(id, type, l, r) == [k |-> "binary", id |-> id, Type |-> type, Left |-> l, Right |-> r]
funcCall(id, name, args) == [k |-> "funcCall", id |-> id, Type |-> "function-call", Name |-> name, Args |-> args]
varDecl(id, name, dt, init) == [k |-> "varDecl", id |-> id, Type |-> "variable-declaration", Name |-> name, DataType |-> dt, Init |-> init]
structDecl(id, name, attrs) == [k |-> "structDecl", id |-> id, Type |-> "struct-declaration", Name |-> name, Attrs |-> attrs]
funcDecl(id, name, ret, block, params) == [k |-> "funcDecl", id |-> id, Type |-> "function-declaration", Name |-> name, RetType |-> ret, Block |-> block, Params |-> params]
retStmt(id, e) == [k |-> "retStmt", id |-> id, Type |-> "return", Expr |-> e]
conditional(id, cond, then, else) == [k |-> "conditional", id |-> id, Type |-> "conditional", Cond |-> cond, Then |-> then, Else |-> else]
forStmt(id, type, cond, block) == [k |-> "forStmt", id |-> id, Type |-> type, Cond |-> cond, Block |-> block]

\* the mutation: the case for token.XOR is taken in too, as a kind of "not"
unaryType_xor(op) ==
  CASE op = "+" -> "pos" [] op = "-" -> "neg" [] op \in {"!", "^"} -> "not" [] OTHER -> ""

\* the switch on x.Op of case *ast.UnaryExpr: the tag, "" in the default case
unaryType(op) ==
  CASE op = "+" -> "pos" [] op = "-" -> "neg" [] op = "!" -> "not" [] OTHER -> ""

RECURSIVE parseExpr(_, _)
RECURSIVE parseExprs(_, _, _)
\* the loop over x.Args: every argument parsed in order, appended to acc
parseExprs(a, xs, acc) ==
  IF xs = <<>> THEN [n |-> acc, a |-> a]
  ELSE LET e == parseExpr(a, Head(xs))
       IN  parseExprs(e.a, Tail(xs), Append(acc, e.n))

\* a.parseExpr(expr): the IR node n (Nil for the nil expr) and the instance after
parseExpr(a, x) ==
  CASE x.k = "Ident" ->
         LET r == newID(a) IN [n |-> identifier(r.id, "identifier", NameValue(x.Name)), a |-> r.a]
    [] x.k = "BasicLit" ->
         LET r == newID(a) IN [n |-> identifier(r.id, basicLitName(x.Kind), exprValue(x)), a |-> r.a]
    [] x.k = "UnaryExpr" ->
         IF unaryType(x.Op) = ""
         THEN getInvalid(a, "Invalid unary expression: " \o x.Op)
         ELSE LET r == newID(a)
                  e == parseExpr(r.a, x.X)
              IN  [n |-> unary(r.id, unaryType(x.Op), e.n), a |-> e.a]
    [] x.k = "CallExpr" ->
         LET r == newID(a)
             as == parseExprs(r.a, x.Args, <<>>)
         IN  [n |-> funcCall(r.id, exprString(x.Fun), as.n), a |-> as.a]
    [] x.k = "BinaryExpr" ->
         LET r == newID(a)
             l == parseExpr(r.a, x.X)
             rr == parseExpr(l.a, x.Y)
             t == CASE x.Op = "&&" -> "and" [] x.Op = "||" -> "or" [] OTHER -> x.Op
         IN  [n |-> binary(r.id, t, l.n, rr.n), a |-> rr.a]
    [] x.k = "IndexExpr" ->
         LET r == newID(a)
             l == parseExpr(r.a, x.X)
             rr == parseExpr(l.a, x.Index)
         IN  [n |-> binary(r.id, "[]", l.n, rr.n), a |-> rr.a]
    [] x.k = "SelectorExpr" ->
         LET r == newID(a)
             l == parseExpr(r.a, x.X)
             rr == parseExpr(l.a, x.Sel)
         IN  [n |-> binary(r.id, ".", l.n, rr.n), a |-> rr.a]
    [] x.k = "ParenExpr" -> parseExpr(a, x.X)
    [] OTHER -> [n |-> Nil, a |-> a]

RECURSIVE assignIdToDataType(_, _)
\* the mutation: the copy gets an id, its sub-type is left as resolved
assignIdToDataType_shallow(a, dType) ==
  IF dType = Nil THEN [n |-> Nil, a |-> a]
  ELSE LET r == newID(a) IN [n |-> dataType(r.id, dType.Name, dType.SubType), a |-> r.a]

assignIdToDataType(a, dType) ==
  IF dType = Nil THEN [n |-> Nil, a |-> a]
  ELSE LET r == newID(a)
           sub == assignIdToDataType(r.a, dType.SubType)
       IN  [n |-> dataType(r.id, dType.Name, sub.n), a |-> sub.a]

(***************************************************************************)
(* The cases of AST.Visit.  Each takes the instance and the node and       *)
(* gives the instance after the case and w: whether Visit returns the      *)
(* visitor (ast.Walk then walks the children and calls Visit(nil)) or nil. *)
(***************************************************************************)
Ret(a, w) == [a |-> a, w |-> w]

RECURSIVE attrs(_, _, _)
\* the loop over the flattened fields of a struct type
attrs(a, fs, acc) ==
  IF fs = <<>> THEN [n |-> acc, a |-> a]
  ELSE LET r == newID(a)
           t == assignIdToDataType(r.a, Head(fs).dType)
       IN  attrs(t.a, Tail(fs), Append(acc, varDecl(r.id, Head(fs).vName, t.n, Nil)))

visitTypeSpec(a, x) ==
  LET n == IF x.Name # Nil THEN exprString(x.Name) ELSE ""
  IN  IF x.Type.k = "StructType"
      THEN LET r == newID(a)
               as == attrs(r.a, flattenFieldList(x.Type.Fields), <<>>)
           IN  Ret(addStmt(as.a, structDecl(r.id, n, as.n)), FALSE)
      ELSE Ret(a, FALSE)

\* case *ast.BasicLit, *ast.UnaryExpr, *ast.CallExpr
visitExpr(a, x) ==
  LET e == parseExpr(a, x) IN Ret(addStmt(e.a, e.n), FALSE)

RECURSIVE params(_, _, _)
\* the loop over the flattened parameters; nodePos(f.node) is evaluated
\* after the parameter's id is taken
params(a, fs, acc) ==
  IF fs = <<>> \/ a.status = "panic" THEN [n |-> acc, a |-> a]
  ELSE LET r == newID(a)
           p == nodePos(r.a, Head(fs).node)
           t == assignIdToDataType(p, Head(fs).dType)
       IN  IF p.status = "panic" THEN [n |-> acc, a |-> p]
           ELSE params(t.a, Tail(fs), Append(acc, varDecl(r.id, Head(fs).vName, t.n, Nil)))

\* the return type the declaration is given: void unless exactly one result
retTypeOf(results) ==
  IF Len(results) = 1 THEN results[1].dType ELSE dataType(0, "void", Nil)

visitFuncDecl(a, x) ==
  LET results == flattenFieldList(x.Type.Results)
      r == newID(a)
      rt == assignIdToDataType(r.a, retTypeOf(results))
      b == newBlock(rt.a)
      ps == params(b.a, flattenFieldList(x.Type.Params), <<>>)
      d == funcDecl(r.id, x.Name.Name, rt.n, b.ref, ps.n)
  IN  Ret(pushNode(pushBlock(addStmt(ps.a, d), b.ref), x), TRUE)

RECURSIVE declNames(_, _, _, _)
\* the inner loop of case *ast.DeclStmt over flattenNames(s.Type, s.Names),
\* from index i; s.Values[i] is a run-time panic past the end of Values
declNames(a, s, ts, i) ==
  IF i > Len(ts) \/ a.status = "panic" THEN a
  ELSE IF s.Values # <<>> /\ i > Len(s.Values) THEN Panic(a)
  ELSE LET t == ts[i]
           vType == t.dType.Name
           v == IF s.Values # <<>> THEN exprValue(s.Values[i]) ELSE zeroValues(vType)
           r == newID(a)
           dt == assignIdToDataType(r.a, t.dType)
           ri == newID(dt.a)
           d == IF v # NilValue
                THEN varDecl(r.id, t.vName, dt.n, identifier(ri.id, vType, v))
                ELSE varDecl(r.id, t.vName, dt.n, Nil)
           a2 == IF v # NilValue THEN ri.a ELSE dt.a
       IN  declNames(addStmt(a2, d), s, ts, i + 1)

RECURSIVE declSpecs(_, _)
\* the outer loop over gd.Specs: only value specs are handled
declSpecs(a, specs) ==
  IF specs = <<>> \/ a.status = "panic" THEN a
  ELSE IF Head(specs).k # "ValueSpec" THEN declSpecs(a, Tail(specs))
  ELSE declSpecs(declNames(a, Head(specs), flattenNames(Head(specs).Type, Head(specs).Names), 1),
                 Tail(specs))

visitDeclStmt(a, x) == Ret(declSpecs(a, x.Decl.Specs), FALSE)

RECURSIVE assigns_swapped(_, _, _)
\* the mutation: the Binary of an assignment gets its operands the other way round
assigns_swapped(a, x, i) ==
  IF i > Len(x.Lhs) \/ a.status = "panic" THEN a
  ELSE IF i > Len(x.Rhs) THEN Panic(a)
  ELSE LET l == x.Lhs[i]
           rhs == x.Rhs[i]
           r == newID(a)
       IN  IF x.Tok = ":="
           THEN LET dt == assignIdToDataType(r.a, exprType(rhs))
                    e == parseExpr(dt.a, rhs)
                IN  assigns_swapped(addStmt(e.a, varDecl(r.id, exprString(l), dt.n, e.n)), x, i + 1)
           ELSE LET re == parseExpr(r.a, rhs)
                    le == parseExpr(re.a, l)
                IN  assigns_swapped(addStmt(le.a, binary(r.id, x.Tok, re.n, le.n)), x, i + 1)

RECURSIVE assigns(_, _, _)
\* the loop of case *ast.AssignStmt over x.Lhs, from index i; x.Rhs[i] is a
\* run-time panic past the end of Rhs
assigns(a, x, i) ==
  IF i > Len(x.Lhs) \/ a.status = "panic" THEN a
  ELSE IF i > Len(x.Rhs) THEN Panic(a)
  ELSE LET l == x.Lhs[i]
           rhs == x.Rhs[i]
           r == newID(a)
       IN  IF x.Tok = ":="
           THEN LET dt == assignIdToDataType(r.a, exprType(rhs))
                    e == parseExpr(dt.a, rhs)
                IN  assigns(addStmt(e.a, varDecl(r.id, exprString(l), dt.n, e.n)), x, i + 1)
           ELSE LET le == parseExpr(r.a, l)
                    re == parseExpr(le.a, rhs)
                IN  assigns(addStmt(re.a, binary(r.id, x.Tok, le.n, re.n)), x, i + 1)

visitAssignStmt(a, x) == Ret(assigns(a, x, 1), FALSE)

visitReturnStmt(a, x) ==
  LET r == newID(a)
      e == IF Len(x.Results) > 0 THEN parseExpr(r.a, x.Results[1]) ELSE [n |-> Nil, a |-> r.a]
  IN  Ret(addStmt(e.a, retStmt(r.id, e.n)), FALSE)

visitIncDecStmt(a, x) ==
  LET r == newID(a)
      e == parseExpr(r.a, x.X)
      t == CASE x.Tok = "++" -> "_++" [] x.Tok = "--" -> "_--" [] OTHER -> ""
  IN  Ret(addStmt(e.a, unary(r.id, t, e.n)), FALSE)

\* c.Else is set after addStmt(c): c is a pointer, so the statement added
\* is the conditional with its Else
visitIfStmt(a, x) ==
  LET r == newID(a)
      c == parseExpr(r.a, x.Cond)
      th == newBlock(c.a)
  IN  IF th.a.blockStack = <<>> THEN Ret(Panic(th.a), FALSE)
      ELSE IF x.Else # Nil
      THEN LET el == newBlock(th.a)
               a1 == addStmt(el.a, conditional(r.id, c.n, th.ref, el.ref))
           IN  Ret(pushNode(pushBlock(pushNode(pushBlock(a1, el.ref), x), th.ref), x), TRUE)
      ELSE LET a1 == addStmt(th.a, conditional(r.id, c.n, th.ref, Nil))
           IN  Ret(pushNode(pushBlock(a1, th.ref), x), TRUE)

visitForStmt(a, x) ==
  LET r == newID(a)
      c == parseExpr(r.a, x.Cond)
      b == newBlock(c.a)
      t == IF x.Init # Nil \/ x.Post # Nil THEN "for" ELSE "while"
  IN  Ret(pushNode(pushBlock(addStmt(b.a, forStmt(r.id, t, c.n, b.ref)), b.ref), x), TRUE)

\* case *ast.File, *ast.BlockStmt, *ast.ExprStmt, *ast.GenDecl: empty
visitContainer(a, x) == Ret(pushNode(a, x), TRUE)

\* an error node, and then the statement is entered like a supported one
visitUnsupported_descend(a, x, desc) == Ret(pushNode(addInvalid(a, desc), x), TRUE)

visitUnsupported(a, x, desc) == Ret(addInvalid(a, desc), FALSE)

\* Visit(nil): the node on top of the node stack is closed
visitNil(a) ==
  IF a.nodeStack = <<>> THEN Panic(a)
  ELSE IF a.nodeStack[Len(a.nodeStack)].k = "BlockStmt" THEN popNode(popBlock(a))
  ELSE popNode(a)

(***************************************************************************)
(* ast.Walk: Visit(node); if it returns a visitor, the children in order,  *)
(* then Visit(nil).                                                        *)
(***************************************************************************)
Opt(n) == IF n = Nil THEN <<>> ELSE <<n>>

Children(n) ==
  CASE n.k = "File" -> <<n.Name>> \o n.Decls
    [] n.k = "GenDecl" -> n.Specs
    [] n.k = "FuncDecl" -> <<n.Name, n.Type>> \o Opt(n.Body)
    [] n.k = "BlockStmt" -> n.List
    [] n.k = "ExprStmt" -> <<n.X>>
    [] n.k = "IfStmt" -> Opt(n.Init) \o <<n.Cond, n.Body>> \o Opt(n.Else)
    [] n.k = "ForStmt" -> Opt(n.Init) \o Opt(n.Cond) \o Opt(n.Post) \o <<n.Body>>
    [] OTHER -> <<>>

VisitEv(n) == [ev |-> "visit", node |-> n]
ExitEv == [ev |-> "exit", node |-> Nil]

\* the history of the instance before a Visit call
Snapshot(a) ==
  [curID |-> a.curID, heap |-> a.heap, blockStack |-> a.blockStack,
   nodeStack |-> a.nodeStack, agenda |-> a.agenda]

\* the instance as the Visit call for the head of the agenda starts
Begin(a) ==
  [a EXCEPT !.agenda = Tail(@), !.last = Head(a.agenda), !.pre = Snapshot(a)]

\* the history of a node the walk has entered: the node, the kind of the
\* node it is a child of, and the stacks as its Visit call started
Entered(a, n) ==
  [node |-> n,
   parent |-> IF a.open = <<>> THEN "" ELSE a.open[Len(a.open)].node.k,
   blockStack |-> a.pre.blockStack,
   nodeStack |-> a.pre.nodeStack,
   curID |-> a.pre.curID]

\* the walk leaves the node it entered last
Leave(a) ==
  IF a.open = <<>> THEN a
  ELSE [a EXCEPT !.closed = a.open[Len(a.open)], !.open = SubSeq(@, 1, Len(@) - 1)]

\* the instance after a Visit call that returned r
Finish(r, n) ==
  LET a1 == IF r.a.status = "panic" THEN r.a
            ELSE IF r.w THEN [r.a EXCEPT !.agenda = [i \in 1..Len(Children(n)) |-> VisitEv(Children(n)[i])] \o <<ExitEv>> \o @,
                                         !.open = Append(@, Entered(r.a, n))]
            ELSE r.a
  IN  IF a1.status = "running" /\ a1.agenda = <<>> THEN [a1 EXCEPT !.status = "done"] ELSE a1

\* NewAST(fset) and the call ast.Walk(a, f) about to make its first visit
NewAST(f) ==
  LET a0 == [curID |-> 0, log |-> <<>>, heap |-> <<>>, blockStack |-> <<>>,
             nodeStack |-> <<>>, agenda |-> <<VisitEv(f)>>, status |-> "running",
             last |-> ExitEv, pre |-> Nil, input |-> f, open |-> <<>>,
             closed |-> [node |-> Nil, parent |-> "", blockStack |-> <<>>, nodeStack |-> <<>>, curID |-> 0]]
      b == newBlock(a0)
      a1 == pushBlock(b.a, b.ref)
  IN  [a1 EXCEPT !.pre = Snapshot(a1)]

Visiting(i, kinds) ==
  /\ inst[i].status = "running"
  /\ inst[i].agenda # <<>>
  /\ Head(inst[i].agenda).ev = "visit"
  /\ Head(inst[i].agenda).node.k \in kinds

Node(i) == Head(inst[i].agenda).node

\* one id counter for the whole process instead of one per instance
Step_shared(i, r) ==
  inst' = [j \in DOMAIN inst |->
             IF j = i THEN Finish(r, Node(i))
             ELSE [inst[j] EXCEPT !.curID = @ + (r.a.curID - inst[i].curID)]]

\* one node stack for the whole process instead of one per instance
Step_sharedStack(i, r) ==
  inst' = [j \in DOMAIN inst |->
             IF j = i THEN Finish(r, Node(i))
             ELSE [inst[j] EXCEPT !.nodeStack = r.a.nodeStack]]

Step(i, r) == inst' = [inst EXCEPT ![i] = Finish(r, Node(i))]

HandledKinds ==
  {"TypeSpec", "BasicLit", "UnaryExpr", "CallExpr", "FuncDecl", "DeclStmt", "AssignStmt",
   "ReturnStmt", "IncDecStmt", "IfStmt", "ForStmt", "File", "BlockStmt", "ExprStmt",
   "GenDecl", "BranchStmt", "RangeStmt", "SendStmt", "SwitchStmt", "DeferStmt", "GoStmt"}

VisitNil(i) ==
  /\ inst[i].status = "running"
  /\ inst[i].agenda # <<>>
  /\ Head(inst[i].agenda).ev = "exit"
  /\ inst' = [inst EXCEPT ![i] = Finish(Ret(Leave(visitNil(Begin(inst[i]))), FALSE), Nil)]

VisitTypeSpec(i) ==
  Visiting(i, {"TypeSpec"}) /\ Step(i, visitTypeSpec(Begin(inst[i]), Node(i)))

VisitBasicLit(i) ==
  Visiting(i, {"BasicLit"}) /\ Step(i, visitExpr(Begin(inst[i]), Node(i)))

VisitUnaryExpr(i) ==
  Visiting(i, {"UnaryExpr"}) /\ Step(i, visitExpr(Begin(inst[i]), Node(i)))

VisitCallExpr(i) ==
  Visiting(i, {"CallExpr"}) /\ Step(i, visitExpr(Begin(inst[i]), Node(i)))

VisitFuncDecl(i) ==
  Visiting(i, {"FuncDecl"}) /\ Step(i, visitFuncDecl(Begin(inst[i]), Node(i)))

VisitDeclStmt(i) ==
  Visiting(i, {"DeclStmt"}) /\ Step(i, visitDeclStmt(Begin(inst[i]), Node(i)))

VisitAssignStmt(i) ==
  Visiting(i, {"AssignStmt"}) /\ Step(i, visitAssignStmt(Begin(inst[i]), Node(i)))

VisitReturnStmt(i) ==
  Visiting(i, {"ReturnStmt"}) /\ Step(i, visitReturnStmt(Begin(inst[i]), Node(i)))

VisitIncDecStmt(i) ==
  Visiting(i, {"IncDecStmt"}) /\ Step(i, visitIncDecStmt(Begin(inst[i]), Node(i)))

VisitIfStmt(i) ==
  Visiting(i, {"IfStmt"}) /\ Step(i, visitIfStmt(Begin(inst[i]), Node(i)))

VisitForStmt(i) ==
  Visiting(i, {"ForStmt"}) /\ Step(i, visitForStmt(Begin(inst[i]), Node(i)))

VisitContainer(i) ==
  Visiting(i, {"File", "BlockStmt", "ExprStmt", "GenDecl"})
    /\ Step(i, visitContainer(Begin(inst[i]), Node(i)))

VisitBranchStmt(i) ==
  Visiting(i, {"BranchStmt"})
    /\ Step(i, visitUnsupported(Begin(inst[i]), Node(i), "branch statements not supported"))

VisitRangeStmt(i) ==
  Visiting(i, {"RangeStmt"})
    /\ Step(i, visitUnsupported(Begin(inst[i]), Node(i), "range statements not supported"))

VisitSendStmt(i) ==
  Visiting(i, {"SendStmt"})
    /\ Step(i, visitUnsupported(Begin(inst[i]), Node(i), "send statements not supported"))

VisitSwitchStmt(i) ==
  Visiting(i, {"SwitchStmt"})
    /\ Step(i, visitUnsupported(Begin(inst[i]), Node(i), "switch statements not supported"))

VisitDeferStmt(i) ==
  Visiting(i, {"DeferStmt"})
    /\ Step(i, visitUnsupported(Begin(inst[i]), Node(i), "defer statements not supported"))

VisitGoStmt(i) ==
  Visiting(i, {"GoStmt"})
    /\ Step(i, visitUnsupported(Begin(inst[i]), Node(i), "go statements not supported"))

\* default: any other node is passed over, its children unvisited
VisitDefault(i) ==
  /\ inst[i].status = "running"
  /\ inst[i].agenda # <<>>
  /\ Head(inst[i].agenda).ev = "visit"
  /\ Head(inst[i].agenda).node.k \notin HandledKinds
  /\ Step(i, Ret(Begin(inst[i]), FALSE))

(***************************************************************************)
(* The source units the traversals are run on.                             *)
(***************************************************************************)
X == Ident("x")
Y == Ident("y")
Int1 == BasicLit("INT", <<"1">>)
CharC == BasicLit("CHAR", <<SQ, "c", SQ>>)
StrAB == BasicLit("STRING", <<DQ, "a", BSL, "n", "b", DQ>>)
Hello == <<"H", "e", "l", "l", "o", ",", " ", "W", "o", "r", "l", "d", "!">>
CharNL == BasicLit("CHAR", <<SQ, BSL, "n", SQ>>)
RawAB == BasicLit("STRING", <<BQ, "a", BSL, "n", "b", BQ>>)
Int42 == BasicLit("INT", <<"4", "2">>)
Hex1F == BasicLit("INT", <<"0", "x", "1", "F">>)
Oct17 == BasicLit("INT", <<"0", "1", "7">>)
Float15 == BasicLit("FLOAT", <<"1", ".", "5">>)
Imag1 == BasicLit("IMAG", <<"1", "i">>)
\* literals written as statements of their own
Literals == {Int1, Int42, Hex1F, Oct17, Float15, CharC, CharNL, StrAB, RawAB}
CallF == CallExpr(Ident("f"), <<>>)
Println(args) == CallExpr(SelectorExpr(Ident("fmt"), "Println"), args)
IntT == Ident("int")
Inc == IncDecStmt(X, "++")
Dec == IncDecStmt(Y, "--")
Var(names, type, values) == DeclStmt(GenDecl("var", <<ValueSpec(names, type, values)>>))

\* statements that emit into the active scope and open no scope
SimpleStmts ==
  { ExprStmt(Println(<<StrAB>>)),
    ExprStmt(UnaryExpr("-", X)),
    ExprStmt(UnaryExpr("<-", X)),
    ExprStmt(BinaryExpr(X, "+", Y)),
    Var(<<X>>, IntT, <<>>),
    Var(<<X, Y>>, IntT, <<>>),
    Var(<<X>>, Ident("float64"), <<>>),
    Var(<<X>>, Ident("string"), <<StrAB>>),
    Var(<<X>>, Nil, <<CallF>>),
    Var(<<X, Y>>, Nil, <<CallF>>),
    DeclStmt(GenDecl("type", <<TypeSpec("T", StructType(FieldList(<<>>)))>>)),
    AssignStmt(<<X>>, ":=", <<Int1>>),
    AssignStmt(<<X, Y>>, ":=", <<Int1, CharC>>),
    AssignStmt(<<X, Y>>, ":=", <<CallF>>),
    AssignStmt(<<X>>, ":=", <<FuncLit>>),
    AssignStmt(<<X>>, "=", <<BinaryExpr(Y, "&&", ParenExpr(IndexExpr(X, Int1)))>>),
    AssignStmt(<<X>>, "+=", <<CallF>>),
    AssignStmt(<<X>>, "=", <<StarExpr(Y)>>),
    AssignStmt(<<X, Y>>, "=", <<Y, X>>),
    AssignStmt(<<X>>, ":=", <<CompositeLit(ArrayType(IntT))>>),
    AssignStmt(<<X>>, ":=", <<CompositeLit(Ident("T"))>>),
    AssignStmt(<<X>>, ":=", <<Imag1>>),
    ExprStmt(UnaryExpr("+", X)),
    ExprStmt(UnaryExpr("!", CallF)),
    ExprStmt(UnaryExpr("^", X)),
    AssignStmt(<<X>>, "=", <<UnaryExpr("-", Y)>>),
    AssignStmt(<<X>>, "=", <<UnaryExpr("^", Y)>>),
    ExprStmt(CallExpr(Ident("f"), <<StarExpr(Y), X>>)),
    ExprStmt(UnaryExpr("-", StarExpr(Y))),
    ReturnStmt(<<>>),
    ReturnStmt(<<X, Y>>),
    Inc,
    Dec,
    LabeledStmt(Ident("L"), Inc) }
    \cup {ExprStmt(l) : l \in Literals}

\* the statements the visitor rejects, each with something nested in it
UnsupportedStmts ==
  { BranchStmt("break"),
    RangeStmt(X, BlockStmt(<<Inc>>)),
    SendStmt(X, CallF),
    SwitchStmt(X, BlockStmt(<<Inc>>)),
    DeferStmt(CallF),
    GoStmt(CallF) }

If(cond, then, else) == IfStmt(Nil, cond, BlockStmt(then), else)

\* statements with blocks of their own
CompoundStmts ==
  { If(X, <<Inc>>, Nil),
    If(X, <<Inc>>, BlockStmt(<<Dec>>)),
    If(X, <<Inc>>, If(Y, <<Dec>>, Nil)),
    If(X, <<Inc>>, If(Y, <<Dec>>, BlockStmt(<<ReturnStmt(<<>>)>>))),
    If(CallF, <<Inc>>, Nil),
    IfStmt(AssignStmt(<<X>>, ":=", <<Int1>>), X, BlockStmt(<<Inc>>), Nil),
    If(X, <<If(Y, <<Inc>>, BlockStmt(<<Dec>>))>>, Nil),
    If(X, <<If(Y, <<Inc>>, BlockStmt(<<Dec>>))>>, BlockStmt(<<ReturnStmt(<<>>)>>)),
    ForStmt(Nil, X, Nil, BlockStmt(<<Inc>>)),
    ForStmt(Nil, Nil, Nil, BlockStmt(<<BranchStmt("break")>>)),
    ForStmt(AssignStmt(<<X>>, ":=", <<Int1>>), BinaryExpr(X, "<", Y), Inc, BlockStmt(<<Dec>>)),
    ForStmt(Nil, CallF, Nil, BlockStmt(<<If(X, <<Inc>>, BlockStmt(<<Dec>>))>>)),
    BlockStmt(<<Inc>>),
    BlockStmt(<<BlockStmt(<<Inc>>)>>) }

\* if statements and loops by the kind of their condition, and a loop
\* with a bare block in its body
CondStmts ==
  { If(UnaryExpr("!", X), <<Inc>>, Nil),
    If(BinaryExpr(X, "<", Y), <<Inc>>, Nil),
    If(Int1, <<Inc>>, BlockStmt(<<Dec>>)),
    ForStmt(Nil, Int1, Nil, BlockStmt(<<Inc>>)),
    ForStmt(Nil, UnaryExpr("!", X), Nil, BlockStmt(<<Inc>>)),
    ForStmt(Nil, Nil, Inc, BlockStmt(<<Dec>>)),
    ForStmt(Nil, X, Nil, BlockStmt(<<BlockStmt(<<Inc>>)>>)) }

AllStmts == SimpleStmts \cup UnsupportedStmts \cup CompoundStmts \cup CondStmts

\* the statements function bodies are sequenced from
SeqStmts ==
  CompoundStmts \cup
  { SwitchStmt(X, BlockStmt(<<Inc>>)), Inc, Var(<<X, Y>>, IntT, <<>>), ReturnStmt(<<X, Y>>) }

SeqsUpTo(S, n) == UNION {[1..m -> S] : m \in 0..n}

Bodies == {<<s>> : s \in AllStmts} \cup SeqsUpTo(SeqStmts, MaxStmts)

ImportFmt == GenDecl("import", <<ImportSpec(<<DQ, "f", "m", "t", DQ>>)>>)
NoFields == FieldList(<<>>)
FuncG == FuncDecl("g", NoFields, Nil, BlockStmt(<<>>))

\* package main; import "fmt"; func main() { body }; func g() {}
BodyFile(body) ==
  File("main", <<"fmt">>, <<ImportFmt, FuncDecl("main", NoFields, Nil, BlockStmt(body)), FuncG>>)

\* package main; import "fmt"; func main() { fmt.Println("Hello, World!") }
HelloBody == <<ExprStmt(Println(<<BasicLit("STRING", <<DQ>> \o Hello \o <<DQ>>)>>))>>
HelloWorld ==
  File("main", <<"fmt">>, <<ImportFmt, FuncDecl("main", NoFields, Nil, BlockStmt(HelloBody))>>)

\* the hello world unit under another package name or other imports
PkgNames == {"main", "other"}
ImportLists == {<<>>, <<"fmt">>, <<"fmt", "log">>, <<"os">>, <<"fmt", "os">>}
\* the characters of a short import path, quoted as the parser keeps it
Quoted(path) ==
  CASE path = "fmt" -> <<DQ, "f", "m", "t", DQ>>
    [] path = "log" -> <<DQ, "l", "o", "g", DQ>>
    [] OTHER -> <<DQ, "o", "s", DQ>>
ImportDecls(paths) ==
  IF paths = <<>> THEN <<>>
  ELSE <<GenDecl("import", [i \in 1..Len(paths) |-> ImportSpec(Quoted(paths[i]))])>>
GateFile(pkg, paths) ==
  File(pkg, paths, ImportDecls(paths) \o <<FuncDecl("main", NoFields, Nil, BlockStmt(HelloBody))>>)

\* type expressions: a name, a slice of slices, a pointer to a qualified
\* name, and a map type (which the resolver does not know)
TypeExprs ==
  { IntT, ArrayType(ArrayType(Ident("T"))), StarExpr(SelectorExpr(Ident("p"), "T")),
    MapType(IntT, IntT) }
NamePool == <<Ident("a"), Ident("b"), Ident("c"), Ident("d")>>
FieldsOf(counts) ==
  {Field(SubSeq(NamePool, 1, n), t) : n \in counts, t \in TypeExprs}
\* field lists of named entries, of unnamed entries, and of both (struct
\* types only: the parser rejects parameters that mix the two)
NamedLists == {FieldList(l) : l \in SeqsUpTo(FieldsOf(1..MaxNames), MaxFields)}
UnnamedLists == {FieldList(l) : l \in SeqsUpTo(FieldsOf({0}), MaxFields)}
MixedLists == {FieldList(l) : l \in SeqsUpTo(FieldsOf(0..1), MaxFields)}
SigLists == NamedLists \cup UnnamedLists

\* package main; func f(params) results { return }
SigFile(ps, rs) ==
  File("main", <<>>, <<FuncDecl("f", ps, rs, BlockStmt(<<ReturnStmt(<<>>)>>))>>)
\* package main; type T struct { fields }; var v int
StructFile(fs) ==
  File("main", <<>>, <<GenDecl("type", <<TypeSpec("T", StructType(fs))>>),
                       GenDecl("var", <<ValueSpec(<<Ident("v")>>, IntT, <<>>)>>)>>)

Inputs ==
  {BodyFile(b) : b \in Bodies}
    \cup {HelloWorld}
    \cup {GateFile(p, is) : p \in PkgNames, is \in ImportLists}
    \cup {SigFile(ps, Nil) : ps \in SigLists}
    \cup {SigFile(NoFields, rs) : rs \in SigLists}
    \cup {SigFile(FieldList(<<p>>), FieldList(<<r>>)) : p \in FieldsOf({1}), r \in FieldsOf({0})}
    \cup {StructFile(fs) : fs \in MixedLists}

(***************************************************************************)
(* The specification: one traversal of one source unit.                    *)
(***************************************************************************)
Init == \E f \in Inputs : inst = <<NewAST(f)>>

Next ==
  \/ \E i \in DOMAIN inst : VisitNil(i)
  \/ \E i \in DOMAIN inst : VisitTypeSpec(i)
  \/ \E i \in DOMAIN inst : VisitBasicLit(i)
  \/ \E i \in DOMAIN inst : VisitUnaryExpr(i)
  \/ \E i \in DOMAIN inst : VisitCallExpr(i)
  \/ \E i \in DOMAIN inst : VisitFuncDecl(i)
  \/ \E i \in DOMAIN inst : VisitDeclStmt(i)
  \/ \E i \in DOMAIN inst : VisitAssignStmt(i)
  \/ \E i \in DOMAIN inst : VisitReturnStmt(i)
  \/ \E i \in DOMAIN inst : VisitIncDecStmt(i)
  \/ \E i \in DOMAIN inst : VisitIfStmt(i)
  \/ \E i \in DOMAIN inst : VisitForStmt(i)
  \/ \E i \in DOMAIN inst : VisitContainer(i)
  \/ \E i \in DOMAIN inst : VisitBranchStmt(i)
  \/ \E i \in DOMAIN inst : VisitRangeStmt(i)
  \/ \E i \in DOMAIN inst : VisitSendStmt(i)
  \/ \E i \in DOMAIN inst : VisitSwitchStmt(i)
  \/ \E i \in DOMAIN inst : VisitDeferStmt(i)
  \/ \E i \in DOMAIN inst : VisitGoStmt(i)
  \/ \E i \in DOMAIN inst : VisitDefault(i)

Spec == Init /\ [][Next]_vars

(***************************************************************************)
(* Two traversals, each with an AST instance of its own, interleaved in    *)
(* any order.                                                              *)
(***************************************************************************)
\* package main; type T struct { a, b []int; p.T }; func f(a int) int { ... }
Everything ==
  File("main", <<"fmt">>,
       <<ImportFmt,
         GenDecl("type", <<TypeSpec("T", StructType(FieldList(
             <<Field(<<Ident("a"), Ident("b")>>, ArrayType(IntT)),
               Field(<<>>, SelectorExpr(Ident("p"), "T"))>>)))>>),
         FuncDecl("f", FieldList(<<Field(<<Ident("a")>>, IntT)>>),
                  FieldList(<<Field(<<>>, IntT)>>),
                  BlockStmt(<<Var(<<X>>, IntT, <<>>),
                              AssignStmt(<<Y>>, ":=", <<CharC>>),
                              ExprStmt(UnaryExpr("!", X)),
                              ExprStmt(Int1),
                              If(X, <<Inc>>, BlockStmt(<<BranchStmt("break")>>)),
                              ForStmt(Nil, X, Nil, BlockStmt(<<Dec>>)),
                              RangeStmt(X, BlockStmt(<<Inc>>)),
                              SendStmt(X, Y),
                              SwitchStmt(X, BlockStmt(<<>>)),
                              DeferStmt(CallF),
                              GoStmt(CallF),
                              ReturnStmt(<<X>>)>>))>>)

PairInputs ==
  { HelloWorld, Everything,
    BodyFile(<<If(X, <<Inc>>, If(Y, <<Dec>>, Nil)), Var(<<X, Y>>, IntT, <<>>)>>) }

InitPair == \E f \in PairInputs, g \in PairInputs : inst = <<NewAST(f), NewAST(g)>>

SpecPair == InitPair /\ [][Next]_vars

(***************************************************************************)
(* What the claims speak of.                                               *)
(***************************************************************************)
RECURSIVE NodeIds(_)
RECURSIVE NodesIds(_)
\* the ids of a sequence of IR nodes, in order
NodesIds(ns) ==
  IF ns = <<>> THEN <<>> ELSE NodeIds(Head(ns)) \o NodesIds(Tail(ns))

\* the ids of an IR node and of the nodes it owns, its blocks left out
NodeIds(n) ==
  CASE n.k = "nil" -> <<>>
    [] n.k \in {"identifier", "errorNode"} -> <<n.id>>
    [] n.k \in {"unary", "retStmt"} -> <<n.id>> \o NodeIds(n.Expr)
    [] n.k = "binary" -> <<n.id>> \o NodeIds(n.Left) \o NodeIds(n.Right)
    [] n.k = "funcCall" -> <<n.id>> \o NodesIds(n.Args)
    [] n.k = "dataType" -> <<n.id>> \o NodeIds(n.SubType)
    [] n.k = "varDecl" -> <<n.id>> \o NodeIds(n.DataType) \o NodeIds(n.Init)
    [] n.k = "structDecl" -> <<n.id>> \o NodesIds(n.Attrs)
    [] n.k = "funcDecl" -> <<n.id>> \o NodeIds(n.RetType) \o NodesIds(n.Params)
    [] n.k \in {"conditional", "forStmt"} -> <<n.id>> \o NodeIds(n.Cond)

\* the ids of every node of the output: every block and what it holds
HeapIds(heap) ==
  Concat([b \in 1..Len(heap) |-> <<heap[b].id>> \o NodesIds(heap[b].Stmts)])

RECURSIVE TypeIds(_)
RECURSIVE TypesIds(_)
TypesIds(ns) ==
  IF ns = <<>> THEN <<>> ELSE TypeIds(Head(ns)) \o TypesIds(Tail(ns))

\* the ids of the dataType nodes an IR node owns
TypeIds(n) ==
  CASE n.k = "dataType" -> <<n.id>> \o TypeIds(n.SubType)
    [] n.k = "varDecl" -> TypeIds(n.DataType)
    [] n.k = "structDecl" -> TypesIds(n.Attrs)
    [] n.k = "funcDecl" -> TypeIds(n.RetType) \o TypesIds(n.Params)
    [] OTHER -> <<>>

HeapTypeIds(heap) == Concat([b \in 1..Len(heap) |-> TypesIds(heap[b].Stmts)])

Count(seq, x) == Cardinality({i \in 1..Len(seq) : seq[i] = x})
Distinct(seq) == \A i, j \in 1..Len(seq) : i # j => seq[i] # seq[j]
Increasing(seq) == \A i \in 1..Len(seq) - 1 : seq[i] < seq[i + 1]
Range(seq) == {seq[i] : i \in 1..Len(seq)}

RECURSIVE Tree(_, _)
\* the block at a heap address with the blocks of its statements in place
\* of their addresses: the tree json.Marshal walks from RootBlock
Tree(heap, addr) ==
  LET own(r) == IF r = Nil THEN Nil ELSE Tree(heap, r.addr)
      st(n) == CASE n.k \in {"funcDecl", "forStmt"} -> [n EXCEPT !.Block = own(@)]
                 [] n.k = "conditional" -> [n EXCEPT !.Then = own(@), !.Else = own(@)]
                 [] OTHER -> n
  IN  [id |-> heap[addr].id,
       statements |-> [j \in 1..Len(heap[addr].Stmts) |-> st(heap[addr].Stmts[j])]]

RootBlock(a) == Tree(a.heap, 1)

\* the block statements are added to before and after the last Visit call
TopBefore(a) == a.pre.heap[a.pre.blockStack[Len(a.pre.blockStack)]]
TopAfter(a) == a.heap[a.pre.blockStack[Len(a.pre.blockStack)]]
\* the statements the last Visit call added to the active scope
Added(a) == SubSeq(TopAfter(a).Stmts, Len(TopBefore(a).Stmts) + 1, Len(TopAfter(a).Stmts))
\* the last Visit call left every other block as it was
OnlyTopGrew(a) ==
  /\ Len(a.heap) = Len(a.pre.heap)
  /\ \A b \in 1..Len(a.heap) :
       b # a.pre.blockStack[Len(a.pre.blockStack)] => a.heap[b] = a.pre.heap[b]
  /\ SubSeq(TopAfter(a).Stmts, 1, Len(TopBefore(a).Stmts)) = TopBefore(a).Stmts
  /\ TopAfter(a).id = TopBefore(a).id

\* what json.Marshal writes for a value: a number, a string or null
Json(v) ==
  CASE v.vt \in {"int64", "int32", "float64", "*int", "*int32", "*float64"} ->
         [j |-> "number", n |-> v.n, e |-> v.e, s |-> <<>>, name |-> ""]
    [] v.vt \in {"string", "*string"} -> [j |-> "string", n |-> 0, e |-> 0, s |-> v.s, name |-> v.name]
    [] OTHER -> [j |-> "null", n |-> 0, e |-> 0, s |-> <<>>, name |-> ""]
JsonNumber(n) == [j |-> "number", n |-> n, e |-> 0, s |-> <<>>, name |-> ""]
JsonString(cs) == [j |-> "string", n |-> 0, e |-> 0, s |-> cs, name |-> ""]

(***************************************************************************)
(* C1: within one AST instance the ids handed out are strictly increasing  *)
(* in the order of construction, the root block is the first node and has  *)
(* id 0, and no two nodes of the output carry the same id; every id in the *)
(* output is one the allocator handed out.  This holds after every step of *)
(* the traversal.                                                          *)
(***************************************************************************)
C1_IdsUniqueAndIncreasing ==
  \A i \in DOMAIN inst :
    /\ Increasing(inst[i].log)
    /\ inst[i].log[1] = 0
    /\ inst[i].heap[1].id = 0
    /\ inst[i].curID = Len(inst[i].log)
    /\ Distinct(HeapIds(inst[i].heap))
    /\ Range(HeapIds(inst[i].heap)) \subseteq Range(inst[i].log)

\* a finished traversal whose output holds blocks, declarations with their
\* data types, expressions and an error node
C1_Witness ==
  \E i \in DOMAIN inst :
    /\ inst[i].status = "done"
    /\ Len(inst[i].heap) >= 3
    /\ Len(HeapIds(inst[i].heap)) >= 8
    /\ Len(HeapTypeIds(inst[i].heap)) >= 2
    /\ \E b \in 1..Len(inst[i].heap) :
         \E j \in 1..Len(inst[i].heap[b].Stmts) : inst[i].heap[b].Stmts[j].k = "errorNode"

(***************************************************************************)
(* C2: a unit whose package is not "main", or that imports a path other    *)
(* than "fmt" and "log", stops at the file node: nothing is ever emitted   *)
(* into the root block and the traversal does not run to its end.          *)
(***************************************************************************)
allowedImports == {"fmt", "log"}

GateOk(f) ==
  /\ f.Name.Name = "main"
  /\ \A j \in 1..Len(f.Imports) : f.Imports[j] \in allowedImports

C2_GateStopsAtFile ==
  \A i \in DOMAIN inst :
    ~GateOk(inst[i].input) =>
      /\ inst[i].heap[1].Stmts = <<>>
      /\ inst[i].status # "done"
      /\ inst[i].curID = 1

(***************************************************************************)
(* C3: the hello-world unit (package main, import "fmt", func main with    *)
(* the one statement fmt.Println("Hello, World")) yields a root block with *)
(* one FuncDecl named main, return type void, no parameters, whose body    *)
(* holds one FuncCall named print with one Identifier argument of type     *)
(* string carrying the text.                                               *)
(***************************************************************************)
C3_HelloWorld ==
  \A i \in DOMAIN inst :
    (inst[i].input = HelloWorld /\ inst[i].status = "done") =>
      LET root == RootBlock(inst[i]) IN
      /\ Len(root.statements) = 1
      /\ LET fn == root.statements[1] IN
         /\ fn.k = "funcDecl"
         /\ fn.Name = "main"
         /\ fn.RetType.k = "dataType"
         /\ fn.RetType.Name = "void"
         /\ fn.Params = <<>>
         /\ Len(fn.Block.statements) = 1
         /\ LET call == fn.Block.statements[1] IN
            /\ call.k = "funcCall"
            /\ call.Name = "print"
            /\ Len(call.Args) = 1
            /\ call.Args[1].k = "identifier"
            /\ call.Args[1].Type = "string"
            /\ Json(call.Args[1].Value) = JsonString(Hello)

(***************************************************************************)
(* C4: two traversals of the same native tree, each with a fresh AST       *)
(* instance, end alike and with the same output, ids included, however     *)
(* their steps interleave.                                                 *)
(***************************************************************************)
C4_Deterministic ==
  \A i, j \in DOMAIN inst :
    (/\ inst[i].input = inst[j].input
     /\ inst[i].status # "running"
     /\ inst[j].status # "running") =>
      /\ inst[i].status = inst[j].status
      /\ RootBlock(inst[i]) = RootBlock(inst[j])
      /\ inst[i].log = inst[j].log

\* both traversals of one unit with every kind of node are over
C4_Witness ==
  /\ Len(inst) = 2
  /\ inst[1].input = Everything
  /\ inst[2].input = Everything
  /\ inst[1].status = "done"
  /\ inst[2].status = "done"
  /\ Len(HeapIds(inst[1].heap)) >= 20

(***************************************************************************)
(* C5: no data-type node of the output shares its id with any other node:  *)
(* every occurrence of a type, nested element types included, carries an   *)
(* id of its own that the allocator handed out.                            *)
(***************************************************************************)
C5_DataTypeIdsOwn ==
  \A i \in DOMAIN inst :
    LET ids == HeapIds(inst[i].heap)
        tids == HeapTypeIds(inst[i].heap)
    IN  \A t \in 1..Len(tids) :
          /\ Count(ids, tids[t]) = 1
          /\ tids[t] \in Range(inst[i].log)

\* two parameters or fields declared with one type expression that has an
\* element type: four data-type nodes, two pairs of equal names
C5_Witness ==
  \E i \in DOMAIN inst :
    /\ inst[i].status = "done"
    /\ \E b \in 1..Len(inst[i].heap) :
         \E j \in 1..Len(inst[i].heap[b].Stmts) :
           LET st == inst[i].heap[b].Stmts[j]
               ps == IF st.k = "funcDecl" THEN st.Params
                     ELSE IF st.k = "structDecl" THEN st.Attrs ELSE <<>>
           IN  /\ Len(ps) >= 2
               /\ ps[1].DataType.SubType # Nil
               /\ ps[1].DataType.Name = ps[2].DataType.Name
               /\ ps[1].DataType.SubType.Name = ps[2].DataType.SubType.Name
               /\ ps[1].DataType.id # ps[2].DataType.id
               /\ ps[1].DataType.SubType.id # ps[2].DataType.SubType.id

(***************************************************************************)
(* C6: a field list is flattened in source order: a field with N >= 1      *)
(* names gives N entries, each with its name and the field's resolved      *)
(* type; a field with no names gives one entry with the empty name; a nil  *)
(* field list gives none (a function without results returns void).  The   *)
(* parameters a function declaration emits, and the attributes a struct    *)
(* declaration emits, are these entries, one for one.                      *)
(***************************************************************************)
\* the names the entries of a field list carry, in order
EntryNames(fl) ==
  IF fl = Nil THEN <<>>
  ELSE Concat([j \in 1..Len(fl.List) |->
         IF fl.List[j].Names = <<>> THEN <<"">>
         ELSE [m \in 1..Len(fl.List[j].Names) |-> fl.List[j].Names[m].Name]])

\* the fields the entries of a field list come from, in order
EntryTypes(fl) ==
  IF fl = Nil THEN <<>>
  ELSE Concat([j \in 1..Len(fl.List) |->
         IF fl.List[j].Names = <<>> THEN <<fl.List[j].Type>>
         ELSE [m \in 1..Len(fl.List[j].Names) |-> fl.List[j].Type]])

RECURSIVE TypeNames(_)
\* the names of a data type and of its element types, outermost first
TypeNames(dt) == IF dt = Nil THEN <<>> ELSE <<dt.Name>> \o TypeNames(dt.SubType)

\* the declarations ds are the entries of the field list fl, one for one
EntriesOf(ds, fl) ==
  /\ Len(ds) = Len(EntryNames(fl))
  /\ \A j \in 1..Len(ds) :
       /\ ds[j].k = "varDecl"
       /\ ds[j].Name = EntryNames(fl)[j]
       /\ TypeNames(ds[j].DataType) = TypeNames(exprType(EntryTypes(fl)[j]))

C6_FieldListFlattened ==
  \A i \in DOMAIN inst :
    LET a == inst[i]
        x == a.last.node
    IN  (a.last.ev = "visit" /\ a.pre.blockStack # <<>>) =>
          /\ x.k = "FuncDecl" =>
               /\ a.status # "panic"
               /\ Len(Added(a)) = 1
               /\ Added(a)[1].k = "funcDecl"
               /\ EntriesOf(Added(a)[1].Params, x.Type.Params)
               /\ x.Type.Results = Nil => Added(a)[1].RetType.Name = "void"
          /\ (x.k = "TypeSpec" /\ x.Type.k = "StructType") =>
               /\ a.status # "panic"
               /\ Len(Added(a)) = 1
               /\ Added(a)[1].k = "structDecl"
               /\ EntriesOf(Added(a)[1].Attrs, x.Type.Fields)

(***************************************************************************)
(* C7: a function body with one switch statement among statements that are *)
(* supported and emit one statement each yields a body block of the same   *)
(* length, with an error node at the index of the switch and nowhere else. *)
(***************************************************************************)
UnsupportedKinds ==
  {"BranchStmt", "RangeStmt", "SendStmt", "SwitchStmt", "DeferStmt", "GoStmt"}

\* a supported statement for which the traversal table has one statement
OneEach(s) ==
  /\ s.k \notin UnsupportedKinds \cup {"LabeledStmt"}
  /\ s.k = "AssignStmt" => Len(s.Lhs) = 1
  /\ s.k = "DeclStmt" =>
       /\ Len(s.Decl.Specs) = 1
       /\ s.Decl.Specs[1].k = "ValueSpec" => Len(s.Decl.Specs[1].Names) = 1

C7_SwitchAmongSiblings ==
  \A i \in DOMAIN inst :
    \A b \in Bodies :
      \A p \in 1..Len(b) :
        (/\ inst[i].input = BodyFile(b)
         /\ b[p].k = "SwitchStmt"
         /\ \A q \in 1..Len(b) : q # p => OneEach(b[q])
         /\ inst[i].status # "running") =>
          /\ inst[i].status = "done"
          /\ LET body == RootBlock(inst[i]).statements[1].Block.statements
             IN  /\ Len(body) = Len(b)
                 /\ \A q \in 1..Len(body) : (body[q].k = "errorNode") <=> (q = p)

C9_NoCrashOnAssignOrDecl ==
  \A i \in DOMAIN inst :
    (/\ GateOk(inst[i].input)
     /\ inst[i].last.ev = "visit"
     /\ inst[i].last.node.k \in {"AssignStmt", "DeclStmt"}
     /\ inst[i].pre.blockStack # <<>>) =>
      inst[i].status # "panic"

(***************************************************************************)
(* C10: a visit to the declaration statement `var x int` while a scope is  *)
(* active appends to that scope exactly one VarDecl with name x, data type *)
(* int and an Init that is an Identifier of type int with the value 0.     *)
(***************************************************************************)
C10_VarIntZero ==
  \A i \in DOMAIN inst :
    LET a == inst[i] IN
    (a.last = VisitEv(Var(<<X>>, IntT, <<>>)) /\ a.pre.blockStack # <<>>) =>
      /\ a.status # "panic"
      /\ OnlyTopGrew(a)
      /\ Len(Added(a)) = 1
      /\ Added(a)[1].k = "varDecl"
      /\ Added(a)[1].Name = "x"
      /\ TypeNames(Added(a)[1].DataType) = <<"int">>
      /\ Added(a)[1].Init.k = "identifier"
      /\ Added(a)[1].Init.Type = "int"
      /\ Json(Added(a)[1].Init.Value) = JsonNumber(0)

\* `var x int` was just visited in a function body
C10_Witness ==
  \E i \in DOMAIN inst :
    /\ inst[i].last = VisitEv(Var(<<X>>, IntT, <<>>))
    /\ Len(inst[i].pre.blockStack) >= 2
    /\ Added(inst[i])[1].Name = "x"
    /\ inst[i].status # "panic"

(***************************************************************************)
(* C11: every VarDecl a declaration statement emits has an Init, whatever  *)
(* the declared type and whether or not an initializer is given.           *)
(***************************************************************************)
C11_InitPresent ==
  \A i \in DOMAIN inst :
    LET a == inst[i] IN
    (/\ a.last.ev = "visit"
     /\ a.last.node.k = "DeclStmt"
     /\ a.pre.blockStack # <<>>) =>
      \A j \in 1..Len(Added(a)) :
        Added(a)[j].k = "varDecl" => Added(a)[j].Init # Nil

(***************************************************************************)
(* C12: a character literal becomes an Identifier of type char whose value *)
(* is the code point of the unescaped character, and a string literal an   *)
(* Identifier of type string whose value is the unquoted string with its   *)
(* escapes interpreted.                                                    *)
(***************************************************************************)
\* what the sample character and string literals denote
CharDenotes(x) == CASE x = CharC -> 99 [] x = CharNL -> 10
StringDenotes(x) ==
  CASE x = StrAB -> <<"a", "\n", "b">>
    [] x = RawAB -> <<"a", BSL, "n", "b">>

C12_CharAndStringValues ==
  \A i \in DOMAIN inst :
    LET a == inst[i]
        x == a.last.node
    IN  (/\ a.last.ev = "visit"
         /\ x.k = "BasicLit"
         /\ x.Kind \in {"CHAR", "STRING"}
         /\ a.pre.blockStack # <<>>) =>
          /\ Len(Added(a)) = 1
          /\ Added(a)[1].k = "identifier"
          /\ x.Kind = "CHAR" =>
               /\ Added(a)[1].Type = "char"
               /\ Json(Added(a)[1].Value) = JsonNumber(CharDenotes(x))
          /\ x.Kind = "STRING" =>
               /\ Added(a)[1].Type = "string"
               /\ Json(Added(a)[1].Value) = JsonString(StringDenotes(x))

(***************************************************************************)
(* C13: an integer literal becomes an Identifier of type int whose value   *)
(* is the integer the literal denotes, in decimal, hexadecimal (0x) and    *)
(* octal (leading 0) form.                                                 *)
(***************************************************************************)
\* the integer a literal denotes by the rules of the language
IntDenotes(cs) ==
  IF Len(cs) > 2 /\ cs[1] = "0" /\ cs[2] \in {"x", "X"}
  THEN DigitsValue(SubSeq(cs, 3, Len(cs)), 16, 0)
  ELSE IF Len(cs) > 1 /\ cs[1] = "0" THEN DigitsValue(Tail(cs), 8, 0)
  ELSE DigitsValue(cs, 10, 0)

C13_IntLiteralValues ==
  \A i \in DOMAIN inst :
    LET a == inst[i]
        x == a.last.node
    IN  (/\ a.last.ev = "visit"
         /\ x.k = "BasicLit"
         /\ x.Kind = "INT"
         /\ a.pre.blockStack # <<>>) =>
          /\ Len(Added(a)) = 1
          /\ Added(a)[1].k = "identifier"
          /\ Added(a)[1].Type = "int"
          /\ Json(Added(a)[1].Value) = JsonNumber(IntDenotes(x.Value))

(***************************************************************************)
(* C14: when the walk leaves a construct (a function, an if statement, a   *)
(* loop, a bare block, or any node that opens no scope) the stack of       *)
(* active scopes is what it was just before the construct was entered.     *)
(* The block statements that are the body of a function, of a loop or of   *)
(* an if branch are part of their construct and are not judged alone.      *)
(***************************************************************************)
\* the node the walk has just left is a construct of its own
ConstructClosed(a) ==
  /\ a.last.ev = "exit"
  /\ a.closed.node # Nil
  /\ a.closed.node.k = "BlockStmt" => a.closed.parent = "BlockStmt"

C14_ScopeBalance ==
  \A i \in DOMAIN inst :
    ConstructClosed(inst[i]) =>
      /\ inst[i].status # "panic"
      /\ inst[i].blockStack = inst[i].closed.blockStack

(***************************************************************************)
(* C15: traversals of independent inputs, each with an AST instance of its *)
(* own, may interleave in any order: every instance is at each moment in a *)
(* state of the traversal of its input run alone: ids, stacks and output.  *)
(***************************************************************************)
\* one call of Visit by ast.Walk on an instance by itself: the type switch
VisitAlone(a) ==
  LET b == Begin(a)
      n == Head(a.agenda).node
      unsupported(desc) == visitUnsupported(b, n, desc)
  IN  IF Head(a.agenda).ev = "exit" THEN Finish(Ret(Leave(visitNil(b)), FALSE), Nil)
      ELSE Finish(
        CASE n.k = "TypeSpec" -> visitTypeSpec(b, n)
          [] n.k \in {"BasicLit", "UnaryExpr", "CallExpr"} -> visitExpr(b, n)
          [] n.k = "FuncDecl" -> visitFuncDecl(b, n)
          [] n.k = "DeclStmt" -> visitDeclStmt(b, n)
          [] n.k = "AssignStmt" -> visitAssignStmt(b, n)
          [] n.k = "ReturnStmt" -> visitReturnStmt(b, n)
          [] n.k = "IncDecStmt" -> visitIncDecStmt(b, n)
          [] n.k = "IfStmt" -> visitIfStmt(b, n)
          [] n.k = "ForStmt" -> visitForStmt(b, n)
          [] n.k \in {"File", "BlockStmt", "ExprStmt", "GenDecl"} -> visitContainer(b, n)
          [] n.k = "BranchStmt" -> unsupported("branch statements not supported")
          [] n.k = "RangeStmt" -> unsupported("range statements not supported")
          [] n.k = "SendStmt" -> unsupported("send statements not supported")
          [] n.k = "SwitchStmt" -> unsupported("switch statements not supported")
          [] n.k = "DeferStmt" -> unsupported("defer statements not supported")
          [] n.k = "GoStmt" -> unsupported("go statements not supported")
          [] OTHER -> Ret(b, FALSE),
        n)

RECURSIVE OnRunAlone(_, _)
\* the traversal that goes on alone from a comes to the state t
OnRunAlone(a, t) ==
  \/ a = t
  \/ a.status = "running" /\ a.agenda # <<>> /\ OnRunAlone(VisitAlone(a), t)

C15_Independent ==
  \A i \in DOMAIN inst : OnRunAlone(NewAST(inst[i].input), inst[i])

\* two different units, both under way, each past its first function
C15_Witness ==
  /\ Len(inst) = 2
  /\ inst[1].input = Everything
  /\ inst[2].input = HelloWorld
  /\ inst[1].status = "running"
  /\ inst[2].status = "running"
  /\ Len(inst[1].blockStack) >= 2
  /\ Len(inst[2].blockStack) >= 2
  /\ inst[1].curID >= 8

(***************************************************************************)
(* C16: no null expression stands where one is required: in every output   *)
(* the operand of every Unary, both operands of every Binary, every        *)
(* argument of every FuncCall and the condition of every Conditional are   *)
(* IR nodes, and so is the Init of every VarDecl a short declaration       *)
(* emits.                                                                  *)
(***************************************************************************)
RECURSIVE NoNullOperand(_)
\* the IR node n and the expressions below it have their operands
NoNullOperand(n) ==
  CASE n.k = "unary" -> n.Expr # Nil /\ NoNullOperand(n.Expr)
    [] n.k = "binary" ->
         /\ n.Left # Nil /\ NoNullOperand(n.Left)
         /\ n.Right # Nil /\ NoNullOperand(n.Right)
    [] n.k = "funcCall" ->
         \A j \in 1..Len(n.Args) : n.Args[j] # Nil /\ NoNullOperand(n.Args[j])
    [] n.k = "conditional" -> n.Cond # Nil /\ NoNullOperand(n.Cond)
    [] n.k = "varDecl" -> NoNullOperand(n.Init)
    [] n.k = "retStmt" -> NoNullOperand(n.Expr)
    [] n.k = "forStmt" -> NoNullOperand(n.Cond)
    [] OTHER -> TRUE

C16_NoNullExpression ==
  \A i \in DOMAIN inst :
    LET a == inst[i] IN
    /\ \A b \in 1..Len(a.heap) :
         \A j \in 1..Len(a.heap[b].Stmts) : NoNullOperand(a.heap[b].Stmts[j])
    /\ (/\ a.last.ev = "visit"
        /\ a.last.node.k = "AssignStmt"
        /\ a.last.node.Tok = ":="
        /\ a.pre.blockStack # <<>>) =>
         \A j \in 1..Len(Added(a)) : Added(a)[j].k = "varDecl" /\ Added(a)[j].Init # Nil

(***************************************************************************)
(* C17: ids follow the pre-order of the native tree: the IR of a           *)
(* function's parameters has smaller ids than its result type and its      *)
(* body Block, and the IR of the statements of a then-branch has smaller   *)
(* ids than the Block of the else branch; every id in the output was       *)
(* allocated before its node was attached.                                 *)
(***************************************************************************)
AllBelow(ids, bound) == \A j \in 1..Len(ids) : ids[j] < bound

C17_PreOrderIds ==
  \A i \in DOMAIN inst :
    LET a == inst[i] IN
    /\ Range(HeapIds(a.heap)) \subseteq Range(a.log)
    /\ \A b \in 1..Len(a.heap) :
         \A j \in 1..Len(a.heap[b].Stmts) :
           LET st == a.heap[b].Stmts[j] IN
           /\ st.k = "funcDecl" =>
                /\ AllBelow(NodesIds(st.Params), st.RetType.id)
                /\ AllBelow(NodesIds(st.Params), a.heap[st.Block.addr].id)
           /\ (st.k = "conditional" /\ st.Else # Nil) =>
                AllBelow(NodesIds(a.heap[st.Then.addr].Stmts), a.heap[st.Else.addr].id)

(***************************************************************************)
(* C18: a bare block (a block statement directly inside a block            *)
(* statement) has no scope effect: entering it leaves the stack of active  *)
(* scopes as it was, and so does leaving it, so that its statements and    *)
(* the statements after it go to the Block of the enclosing construct.     *)
(***************************************************************************)
C18_BareBlockNoScope ==
  \A i \in DOMAIN inst :
    LET a == inst[i] IN
    /\ (/\ a.last.ev = "visit"
        /\ a.last.node.k = "BlockStmt"
        /\ a.open # <<>>
        /\ a.open[Len(a.open)].node = a.last.node
        /\ a.open[Len(a.open)].parent = "BlockStmt") =>
         a.blockStack = a.pre.blockStack
    /\ (/\ a.last.ev = "exit"
        /\ a.closed.node # Nil
        /\ a.closed.node.k = "BlockStmt"
        /\ a.closed.parent = "BlockStmt") =>
         /\ a.status # "panic"
         /\ a.blockStack = a.closed.blockStack

(***************************************************************************)
(* What a native statement puts into the Block it stands in, by the        *)
(* traversal table: the kinds of the IR statements, in order (for a Unary  *)
(* its operator tag).                                                      *)
(***************************************************************************)
RECURSIVE Emits(_)
RECURSIVE EmitsAll(_)
EmitsAll(ss) == IF ss = <<>> THEN <<>> ELSE Emits(Head(ss)) \o EmitsAll(Tail(ss))

Emits(s) ==
  CASE s.k = "IncDecStmt" -> <<"_" \o s.Tok>>
    [] s.k = "ReturnStmt" -> <<"retStmt">>
    [] s.k = "IfStmt" -> <<"conditional">>
    [] s.k = "ForStmt" -> <<"forStmt">>
    [] s.k \in UnsupportedKinds -> <<"errorNode">>
    [] s.k = "BlockStmt" -> EmitsAll(s.List)
    [] s.k = "DeclStmt" ->
         Concat([j \in 1..Len(s.Decl.Specs) |->
           IF s.Decl.Specs[j].k # "ValueSpec" THEN <<>>
           ELSE [m \in 1..Len(s.Decl.Specs[j].Names) |-> "varDecl"]])
    [] s.k = "AssignStmt" ->
         [j \in 1..Len(s.Lhs) |-> IF s.Tok = ":=" THEN "varDecl" ELSE "binary"]
    [] s.k = "ExprStmt" ->
         CASE s.X.k = "CallExpr" -> <<"funcCall">>
           [] s.X.k = "BasicLit" -> <<"identifier">>
           [] s.X.k = "UnaryExpr" ->
                CASE s.X.Op = "+" -> <<"pos">> [] s.X.Op = "-" -> <<"neg">>
                  [] s.X.Op = "!" -> <<"not">> [] OTHER -> <<"errorNode">>
           [] OTHER -> <<>>
    [] OTHER -> <<>>

\* the kinds of a sequence of IR statements
Sigs(stmts) ==
  [j \in 1..Len(stmts) |-> IF stmts[j].k = "unary" THEN stmts[j].Type ELSE stmts[j].k]

EndsWith(seq, tail) ==
  /\ Len(tail) <= Len(seq)
  /\ SubSeq(seq, Len(seq) - Len(tail) + 1, Len(seq)) = tail

\* the statement of the output with the given id
StmtWithId(heap, id) ==
  LET at == CHOOSE p \in {<<b, j>> : b \in 1..Len(heap), j \in 1..10} :
              p[2] <= Len(heap[p[1]].Stmts) /\ heap[p[1]].Stmts[p[2]].id = id
  IN  heap[at[1]].Stmts[at[2]]

HasStmtWithId(heap, id) ==
  \E b \in 1..Len(heap) : \E j \in 1..Len(heap[b].Stmts) : heap[b].Stmts[j].id = id

(***************************************************************************)
(* C19: when the walk leaves an if statement, its Conditional has a then   *)
(* Block, has an else Block exactly when the if has an else branch, the    *)
(* then Block ends with the IR of the statements of the then-branch and    *)
(* the else Block ends with the IR of the else branch.                     *)
(***************************************************************************)
C19_BranchesInTheirBlocks ==
  \A i \in DOMAIN inst :
    LET a == inst[i]
        x == a.closed.node
    IN  (a.last.ev = "exit" /\ x # Nil /\ x.k = "IfStmt") =>
          /\ HasStmtWithId(a.heap, a.closed.curID)
          /\ LET c == StmtWithId(a.heap, a.closed.curID) IN
             /\ c.k = "conditional"
             /\ c.Then # Nil
             /\ (c.Else # Nil) <=> (x.Else # Nil)
             /\ EndsWith(Sigs(a.heap[c.Then.addr].Stmts), EmitsAll(x.Body.List))
             /\ x.Else # Nil =>
                  EndsWith(Sigs(a.heap[c.Else.addr].Stmts),
                           IF x.Else.k = "BlockStmt" THEN EmitsAll(x.Else.List)
                           ELSE Emits(x.Else))

(***************************************************************************)
(* C20: when the walk leaves a function whose body has no bare block, the  *)
(* Block of the function holds the IR of the statements of the body, all   *)
(* of them and nothing else, in source order: a statement after an if      *)
(* statement (with or without else, or with an else-if chain) or after a   *)
(* loop comes right after the Conditional or ForStmt in the same Block.    *)
(***************************************************************************)
C20_SourceOrderInBlock ==
  \A i \in DOMAIN inst :
    LET a == inst[i]
        x == a.closed.node
    IN  (/\ a.last.ev = "exit"
         /\ x # Nil
         /\ x.k = "FuncDecl"
         /\ \A q \in 1..Len(x.Body.List) : x.Body.List[q].k # "BlockStmt") =>
          /\ HasStmtWithId(a.heap, a.closed.curID)
          /\ LET fd == StmtWithId(a.heap, a.closed.curID) IN
             /\ fd.k = "funcDecl"
             /\ Sigs(a.heap[fd.Block.addr].Stmts) = EmitsAll(x.Body.List)

(***************************************************************************)
(* An IR expression with its ids left out, and what the normalizer makes   *)
(* of a native expression, ids left out.                                   *)
(***************************************************************************)
RECURSIVE Shape(_)
Shape(n) ==
  CASE n.k \in {"identifier", "errorNode"} -> [n EXCEPT !.id = 0]
    [] n.k \in {"unary", "retStmt"} -> [n EXCEPT !.id = 0, !.Expr = Shape(@)]
    [] n.k = "binary" -> [n EXCEPT !.id = 0, !.Left = Shape(@), !.Right = Shape(@)]
    [] n.k = "funcCall" -> [n EXCEPT !.id = 0, !.Args = [j \in 1..Len(@) |-> Shape(@[j])]]
    [] n.k = "dataType" -> [n EXCEPT !.id = 0, !.SubType = Shape(@)]
    [] n.k = "varDecl" -> [n EXCEPT !.id = 0, !.DataType = Shape(@), !.Init = Shape(@)]
    [] OTHER -> n

Normalized(a, x) == Shape(parseExpr(a, x).n)

(***************************************************************************)
(* C21: a visit to a for statement while a scope is active appends exactly *)
(* one ForStmt to that scope, tagged "for" if the loop has an init or a    *)
(* post clause and "while" otherwise, with the normalized condition as its *)
(* Cond, and pushes exactly one scope, the loop-body Block; when the walk  *)
(* leaves the body of the loop, that scope is popped: the stack of scopes  *)
(* is what it was when the for statement was entered.                      *)
(***************************************************************************)
C21_ForStmt ==
  \A i \in DOMAIN inst :
    LET a == inst[i]
        x == a.last.node
    IN  /\ (a.last.ev = "visit" /\ x.k = "ForStmt" /\ a.pre.blockStack # <<>>) =>
             /\ a.status # "panic"
             /\ Len(Added(a)) = 1
             /\ Added(a)[1].k = "forStmt"
             /\ Added(a)[1].Type = (IF x.Init # Nil \/ x.Post # Nil THEN "for" ELSE "while")
             /\ Shape(Added(a)[1].Cond) = Normalized(a, x.Cond)
             /\ Len(a.heap) = Len(a.pre.heap) + 1
             /\ Added(a)[1].Block = BlockRef(Len(a.heap))
             /\ a.blockStack = Append(a.pre.blockStack, Len(a.heap))
        /\ (/\ a.last.ev = "exit"
            /\ a.closed.node # Nil
            /\ a.closed.node.k = "BlockStmt"
            /\ a.closed.parent = "ForStmt") =>
             /\ a.status # "panic"
             /\ a.open # <<>>
             /\ a.blockStack = a.open[Len(a.open)].blockStack

(***************************************************************************)
(* C22: when the walk leaves a for statement, the Block of its ForStmt     *)
(* holds the IR of the statements of the loop body, all of them and        *)
(* nothing else, in source order: the init clause and the post clause of   *)
(* the loop are not statements of the body Block.                          *)
(***************************************************************************)
C22_LoopBodyOnly ==
  \A i \in DOMAIN inst :
    LET a == inst[i]
        x == a.closed.node
    IN  (a.last.ev = "exit" /\ x # Nil /\ x.k = "ForStmt") =>
          /\ HasStmtWithId(a.heap, a.closed.curID)
          /\ LET f == StmtWithId(a.heap, a.closed.curID) IN
             /\ f.k = "forStmt"
             /\ Sigs(a.heap[f.Block.addr].Stmts) = EmitsAll(x.Body.List)

(***************************************************************************)
(* C23: the condition of an if statement or of a loop is normalized once,  *)
(* as the Cond of its Conditional or ForStmt: when the walk comes to the   *)
(* condition itself, inside the statement, nothing is emitted and no id is *)
(* taken, whatever the kind of the condition (call, unary, literal,        *)
(* binary, identifier).                                                    *)
(***************************************************************************)
C23_CondOnce ==
  \A i \in DOMAIN inst :
    LET a == inst[i]
        x == a.last.node
    IN  (/\ a.last.ev = "visit"
         /\ a.pre.blockStack # <<>>
         /\ a.open # <<>>
         /\ a.open[Len(a.open)].node.k \in {"IfStmt", "ForStmt"}
         /\ x = a.open[Len(a.open)].node.Cond) =>
          /\ a.heap = a.pre.heap
          /\ a.curID = a.pre.curID

(***************************************************************************)
(* C24: a visit to a function declaration while a scope is active appends  *)
(* exactly one FuncDecl to that scope and pushes exactly one scope, its    *)
(* body Block; the return type is "void" when the result list flattens to  *)
(* no entry and the resolved type of the entry when it flattens to one; a  *)
(* function whose results flatten to more than one entry is flagged with   *)
(* an error node, and is not emitted as a function returning void.         *)
(***************************************************************************)
C24_FuncDecl ==
  \A i \in DOMAIN inst :
    LET a == inst[i]
        x == a.last.node
        n == Len(EntryNames(x.Type.Results))
    IN  (a.last.ev = "visit" /\ x.k = "FuncDecl" /\ a.pre.blockStack # <<>>) =>
          /\ a.status # "panic"
          /\ n <= 1 =>
               /\ Len(Added(a)) = 1
               /\ Added(a)[1].k = "funcDecl"
               /\ Added(a)[1].Name = x.Name.Name
               /\ Len(a.heap) = Len(a.pre.heap) + 1
               /\ Added(a)[1].Block = BlockRef(Len(a.heap))
               /\ a.blockStack = Append(a.pre.blockStack, Len(a.heap))
               /\ n = 0 => TypeNames(Added(a)[1].RetType) = <<"void">>
               /\ n = 1 => TypeNames(Added(a)[1].RetType)
                             = TypeNames(exprType(EntryTypes(x.Type.Results)[1]))
          /\ n > 1 =>
               /\ \E j \in 1..Len(Added(a)) : Added(a)[j].k = "errorNode"
               /\ \A j \in 1..Len(Added(a)) :
                    Added(a)[j].k = "funcDecl" => Added(a)[j].RetType.Name # "void"

(***************************************************************************)
(* The names type resolution is to give, outermost first: the flattened    *)
(* name of a plain, pointer or selector-qualified name, "vector" and the   *)
(* names of the element type for an array or slice type, "unknown" for     *)
(* anything else.                                                          *)
(***************************************************************************)
RECURSIVE FlatName(_)
FlatName(x) ==
  CASE x.k = "Ident" -> x.Name
    [] x.k = "StarExpr" -> FlatName(x.X)
    [] x.k = "SelectorExpr" -> FlatName(x.X) \o "." \o x.Sel.Name
    [] OTHER -> ""

RECURSIVE ResolvedNames(_)
ResolvedNames(x) ==
  IF FlatName(x) # "" THEN <<FlatName(x)>>
  ELSE IF x.k = "ArrayType" THEN <<"vector">> \o ResolvedNames(x.Elt)
  ELSE <<"unknown">>

RECURSIVE WellNamed(_)
\* the data types the IR node n owns have names, and vectors element types
WellNamed(n) ==
  CASE n.k = "dataType" ->
         /\ n.Name # ""
         /\ n.Name = "vector" => n.SubType # Nil
         /\ n.SubType # Nil => WellNamed(n.SubType)
    [] n.k = "varDecl" -> n.DataType # Nil /\ WellNamed(n.DataType)
    [] n.k = "structDecl" -> \A j \in 1..Len(n.Attrs) : WellNamed(n.Attrs[j])
    [] n.k = "funcDecl" ->
         /\ n.RetType # Nil /\ WellNamed(n.RetType)
         /\ \A j \in 1..Len(n.Params) : WellNamed(n.Params[j])
    [] OTHER -> TRUE

(***************************************************************************)
(* C25: type resolution never fails silently.  Every data type of the      *)
(* output has a non-empty name, every declaration has a data type and      *)
(* every vector an element type; the attributes of a struct carry the      *)
(* names resolution is to give for their type expressions, and so does a   *)
(* variable a short declaration emits from an initializer that is a name   *)
(* or that is none of name, literal, binary expression and composite       *)
(* literal ("unknown").                                                    *)
(***************************************************************************)
C25_TypeResolution ==
  \A i \in DOMAIN inst :
    LET a == inst[i]
        x == a.last.node
    IN  /\ \A b \in 1..Len(a.heap) :
             \A j \in 1..Len(a.heap[b].Stmts) : WellNamed(a.heap[b].Stmts[j])
        /\ (/\ a.last.ev = "visit"
            /\ x.k = "TypeSpec"
            /\ x.Type.k = "StructType"
            /\ a.pre.blockStack # <<>>) =>
             /\ Len(Added(a)) = 1
             /\ Len(Added(a)[1].Attrs) = Len(EntryTypes(x.Type.Fields))
             /\ \A j \in 1..Len(Added(a)[1].Attrs) :
                  TypeNames(Added(a)[1].Attrs[j].DataType)
                    = ResolvedNames(EntryTypes(x.Type.Fields)[j])
        /\ (/\ a.last.ev = "visit"
            /\ x.k = "AssignStmt"
            /\ x.Tok = ":="
            /\ Len(x.Lhs) = Len(x.Rhs)
            /\ a.pre.blockStack # <<>>) =>
             /\ Len(Added(a)) = Len(x.Rhs)
             /\ \A j \in 1..Len(Added(a)) :
                  x.Rhs[j].k \notin {"BasicLit", "BinaryExpr", "CompositeLit"} =>
                    TypeNames(Added(a)[j].DataType) = ResolvedNames(x.Rhs[j])

(***************************************************************************)
(* C26: a unary expression with the operator +, - or ! normalizes to a     *)
(* Unary node tagged "pos", "neg" or "not", whose Expr is what the         *)
(* normalizer makes of the operand; with any other operator it normalizes  *)
(* to a single error node and nothing of the operand is normalized (one id *)
(* is taken); the traversal does not crash.  This is so for a unary        *)
(* expression that is a statement of its own and for one that is the       *)
(* right-hand side of an assignment.                                       *)
(***************************************************************************)
\* the IR node n is what the unary expression x is to normalize to
UnaryOf(a, x, n) ==
  /\ x.Op = "+" => n.k = "unary" /\ n.Type = "pos"
  /\ x.Op = "-" => n.k = "unary" /\ n.Type = "neg"
  /\ x.Op = "!" => n.k = "unary" /\ n.Type = "not"
  /\ x.Op \in {"+", "-", "!"} => Shape(n.Expr) = Normalized(a, x.X)
  /\ x.Op \notin {"+", "-", "!"} =>
       /\ n.k = "errorNode"
       /\ DOMAIN n = {"k", "id", "Type", "Value", "Desc"}

C26_UnaryOperators ==
  \A i \in DOMAIN inst :
    LET a == inst[i]
        x == a.last.node
    IN  /\ (a.last.ev = "visit" /\ x.k = "UnaryExpr" /\ a.pre.blockStack # <<>>) =>
             /\ a.status # "panic"
             /\ OnlyTopGrew(a)
             /\ Len(Added(a)) = 1
             /\ UnaryOf(a, x, Added(a)[1])
             /\ Added(a)[1].id = a.pre.curID
             /\ x.Op \notin {"+", "-", "!"} => a.curID = a.pre.curID + 1
        /\ (/\ a.last.ev = "visit"
            /\ x.k = "AssignStmt"
            /\ x.Tok = "="
            /\ Len(x.Rhs) = 1
            /\ x.Rhs[1].k = "UnaryExpr"
            /\ a.pre.blockStack # <<>>) =>
             /\ a.status # "panic"
             /\ Len(Added(a)) = 1
             /\ Added(a)[1].k = "binary"
             /\ UnaryOf(a, x.Rhs[1], Added(a)[1].Right)

\* a unary expression with an operator outside the supported set was just
\* visited in a function body, and the walk goes on
C26_Witness ==
  \E i \in DOMAIN inst :
    /\ inst[i].last.ev = "visit"
    /\ inst[i].last.node.k = "UnaryExpr"
    /\ inst[i].last.node.Op = "^"
    /\ Len(inst[i].pre.blockStack) >= 2
    /\ inst[i].status = "running"
    /\ Added(inst[i])[1].k = "errorNode"

(***************************************************************************)
(* C27: a visit to an assignment with n targets and n right-hand sides     *)
(* while a scope is active appends exactly n statements to that scope, in  *)
(* order, pushes no scope and no node, and the walk does not descend.      *)
(* With := the j-th statement is a VarDecl named after the j-th target,    *)
(* with the data type inferred from the j-th right-hand side and what the  *)
(* normalizer makes of that right-hand side as Init; with = or a compound  *)
(* assignment operator it is a Binary tagged with the operator token, with *)
(* the normalized target as Left and the normalized right-hand side as     *)
(* Right.                                                                  *)
(***************************************************************************)
C27_Assignment ==
  \A i \in DOMAIN inst :
    LET a == inst[i]
        x == a.last.node
    IN  (/\ a.last.ev = "visit"
         /\ x.k = "AssignStmt"
         /\ Len(x.Lhs) = Len(x.Rhs)
         /\ a.pre.blockStack # <<>>) =>
          /\ a.status # "panic"
          /\ OnlyTopGrew(a)
          /\ a.blockStack = a.pre.blockStack
          /\ a.nodeStack = a.pre.nodeStack
          /\ a.agenda = Tail(a.pre.agenda)
          /\ Len(Added(a)) = Len(x.Lhs)
          /\ Increasing([j \in 1..Len(Added(a)) |-> Added(a)[j].id])
          /\ \A j \in 1..Len(Added(a)) :
               LET st == Added(a)[j] IN
               /\ x.Tok = ":=" =>
                    /\ st.k = "varDecl"
                    /\ st.Name = FlatName(x.Lhs[j])
                    /\ TypeNames(st.DataType) = TypeNames(exprType(x.Rhs[j]))
                    /\ Shape(st.Init) = Normalized(a, x.Rhs[j])
               /\ x.Tok # ":=" =>
                    /\ st.k = "binary"
                    /\ st.Type = x.Tok
                    /\ Shape(st.Left) = Normalized(a, x.Lhs[j])
                    /\ Shape(st.Right) = Normalized(a, x.Rhs[j])

\* `x, y = y, x` was just visited in a function body: two Binary nodes
C27_Witness ==
  \E i \in DOMAIN inst :
    /\ inst[i].last = VisitEv(AssignStmt(<<X, Y>>, "=", <<Y, X>>))
    /\ Len(inst[i].pre.blockStack) >= 2
    /\ inst[i].status = "running"
    /\ Len(Added(inst[i])) = 2
    /\ Added(inst[i])[2].k = "binary"

(***************************************************************************)
(* C28: a visit to an increment or decrement statement while a scope is    *)
(* active appends to that scope exactly one Unary node, tagged "++" for an *)
(* increment and "--" for a decrement, whose Expr is what the normalizer   *)
(* makes of the operand; no scope is pushed or popped and no other block   *)
(* changes.                                                                *)
(***************************************************************************)
C28_IncDecTags ==
  \A i \in DOMAIN inst :
    LET a == inst[i]
        x == a.last.node
    IN  (a.last.ev = "visit" /\ x.k = "IncDecStmt" /\ a.pre.blockStack # <<>>) =>
          /\ a.status # "panic"
          /\ OnlyTopGrew(a)
          /\ a.blockStack = a.pre.blockStack
          /\ Len(Added(a)) = 1
          /\ Added(a)[1].k = "unary"
          /\ Shape(Added(a)[1].Expr) = Normalized(a, x.X)
          /\ x.Tok = "++" => Added(a)[1].Type = "++"
          /\ x.Tok = "--" => Added(a)[1].Type = "--"

(***************************************************************************)
(* C29: every top-level function of the unit is emitted as a statement of  *)
(* the root Block, in source order, whatever the bodies of the functions   *)
(* before it hold: when the walk comes to a function declaration the root  *)
(* Block is the active scope, no Block other than the root ever holds a    *)
(* FuncDecl, and when the traversal is over the FuncDecls of the root      *)
(* Block are the functions of the unit, in order.                          *)
(***************************************************************************)
\* the names of the function declarations among the declarations of a unit
FuncNames(decls) ==
  LET fs == SelectSeq(decls, LAMBDA d : d.k = "FuncDecl")
  IN  [j \in 1..Len(fs) |-> fs[j].Name.Name]

\* the names of the FuncDecls among a sequence of IR statements
DeclNames(stmts) ==
  LET fs == SelectSeq(stmts, LAMBDA st : st.k = "funcDecl")
  IN  [j \in 1..Len(fs) |-> fs[j].Name]

C29_FunctionsInRoot ==
  \A i \in DOMAIN inst :
    LET a == inst[i] IN
    /\ (a.last.ev = "visit" /\ a.last.node.k = "FuncDecl") => a.pre.blockStack = <<1>>
    /\ \A b \in 2..Len(a.heap) : DeclNames(a.heap[b].Stmts) = <<>>
    /\ a.status = "done" => DeclNames(a.heap[1].Stmts) = FuncNames(a.input.Decls)

(***************************************************************************)
(* C30: the stack of active scopes never underflows: before every Visit    *)
(* call (where a statement may be added or a scope popped) and after it,   *)
(* the stack holds at least the root Block, at its bottom, so that the     *)
(* root Block is never popped while the traversal goes on, and no Visit    *)
(* call crashes for want of an active scope.                               *)
(***************************************************************************)
C30_NoUnderflow ==
  \A i \in DOMAIN inst :
    LET a == inst[i] IN
    /\ a.pre.blockStack # <<>>
    /\ a.pre.blockStack[1] = 1
    /\ a.blockStack # <<>>
    /\ a.blockStack[1] = 1

====
